---- MODULE Spec2Model ----
(***************************************************************************)
(* tfe-ephemeral: dependency resolution and multi-workspace orchestration. *)
(*                                                                         *)
(* The module models                                                       *)
(*   - src/src/dependency-resolver.ts: resolveExecutionOrder,              *)
(*     topologicalSort (with its inner visit) and validateDependencies,    *)
(*     as operators computed the way the code computes them;               *)
(*   - the WorkspaceManager of workspace-manager.ts (execute and the four  *)
(*     strategies) together with the TFEClient calls it awaits, as a state *)
(*     machine whose steps are the synchronous stretches of code between   *)
(*     two awaits: one step starts execute, every other step is the        *)
(*     arrival of a backend response (or of the poll timer) and runs the   *)
(*     continuation up to the next await.                                  *)
(*                                                                         *)
(* Three specifications share the variables:                               *)
(*   SpecResolver  calls the resolver's two exported functions on every    *)
(*                 configuration of the bounded configuration space;       *)
(*   Spec          runs WorkspaceManager.execute on a configuration against*)
(*                 a backend that answers every request with success or    *)
(*                 failure, in any order;                                  *)
(*   SpecWait      runs TFEClient.waitForRun on its own against a clock:   *)
(*                 polls take time to be answered and the timer of the     *)
(*                 poll interval fires on time or late.                    *)
(***************************************************************************)
EXTENDS Naturals, Sequences, FiniteSets, TLC

VARIABLES
    action,      \* config.action
    names,       \* the keys of config.workspaces, in the order in which the
                 \* configuration document declares them
    dependsOn,   \* config.workspaces[name].dependsOn, [] when absent
    options,     \* config.workspaces[name]: variable-set-id and variables
    vout,        \* SpecResolver: outcome of validateDependencies(config)
    rout,        \* SpecResolver: outcome of resolveExecutionOrder(config)
    pc,          \* Spec: where execute() is: start, running, returned, threw
    thrown,      \* Spec: the error execute() rejected with
    plan,        \* Spec: workspaceNames of execute()
    cur,         \* Spec: index in plan of the sequential loop's workspace
    task,        \* Spec: per workspace, the await its attempt is suspended on
    calls,       \* Spec: per workspace, the backend requests issued for it
    failed,      \* Spec: the workspaces the backend let down: a request of
                 \* theirs failed, their run errored or the deadline passed
    results,     \* Spec: the WorkspaceOperationResult[] built / returned
    lastPoll,    \* Spec: the workspace and the answer of the latest poll
    firstSettled,\* Spec: the workspace whose attempt resolved first
    wpc,         \* SpecWait: where waitForRun is: called, polling, sleeping,
                 \* returned, threw
    clock,       \* SpecWait: Date.now(), in ms since waitForRun was called
    loopNow,     \* SpecWait: the millisecond clock of the event loop, against
                 \* which the runtime's timers are due
    startTime,   \* SpecWait: startTime of waitForRun
    timeout,     \* SpecWait: the timeout argument of waitForRun, in ms
    polled,      \* SpecWait: the number of getJson requests issued
    observed,    \* SpecWait: the answers the polls got so far
    wret,        \* SpecWait: what waitForRun returned or threw
    rpc,         \* SpecRun: where run() is: idle, start, executing, done
    client,      \* SpecRun: the TFEClient and the manager are constructed
    setFailed,   \* SpecRun: what core.setFailed was called with, if at all
    output       \* SpecRun: the outputs workspace-id and workspace-url

\* the variables of waitForRun on its own
waitVars == <<wpc, clock, loopNow, startTime, timeout, polled, observed,
              wret>>

\* the variables of run()
runVars == <<rpc, client, setFailed, output>>

vars == <<action, names, dependsOn, options, vout, rout,
          pc, thrown, plan, cur, task, calls, failed, results,
          lastPoll, firstSettled, waitVars, runVars>>

(***************************************************************************)
(* Bounds of the configuration space.                                      *)
(***************************************************************************)
\* most workspaces declared in a configuration
MaxWs == 3
\* most dependsOn entries (over all workspaces) of a configuration handed to
\* the resolver functions
MaxEdges == 3

\* most workspaces plus dependsOn entries of a configuration that declares
\* integer-like names and is handed to the resolver functions
MaxIndexedSize == 4

\* A configuration declares names of the pool that are no array indices,
\* the first of them in this order (any other choice or order of such names
\* is a renaming), and possibly the integer-like names, at any place among
\* them. Every declared workspace is an object of type WorkspaceConfig, as
\* TFEConfig requires.
NamePool == <<"a", "b", "c", "d", "e", "f">>
\* the workspace names that are array indices (canonical non-negative
\* integers): declared in this order they are enumerated the other way round
IndexNames == <<"10", "9">>
\* the keys, of workspaces or of variables, that are array indices, and
\* their numeric values
IndexKeys == {"1", "2", "9", "10"}
IndexValue(k) ==
    CASE k = "1" -> 1 [] k = "2" -> 2 [] k = "9" -> 9 [] OTHER -> 10
\* a name that no configuration declares
Undeclared == "zz"
\* the names every object, the parsed 'workspaces' included, inherits from
\* Object.prototype: a lookup 'workspaces[name]' of one of them finds a
\* function (or, for __proto__, the prototype), none of which has dependsOn
ObjectPrototype ==
    {"constructor", "hasOwnProperty", "isPrototypeOf",
     "propertyIsEnumerable", "toLocaleString", "toString", "valueOf",
     "__proto__", "__defineGetter__", "__defineSetter__",
     "__lookupGetter__", "__lookupSetter__"}
\* the inherited name the configurations may list in dependsOn
Inherited == "constructor"
NoName == "-"

ActionTypes == {"create", "delete", "apply", "destroy"}

Declared(n) == [i \in 1..n |-> NamePool[i]]
NameSet(n) == {NamePool[i] : i \in 1..n}
Range(s) == {s[i] : i \in 1..Len(s)}

\* Array.prototype.reverse
Reverse(s) == [i \in 1..Len(s) |-> s[Len(s) + 1 - i]]

\* the sequences that hold the elements of s and of t, those of s in the
\* order of s and those of t in the order of t
RECURSIVE Interleavings(_, _)
Interleavings(s, t) ==
    IF s = <<>> THEN {t}
    ELSE IF t = <<>> THEN {s}
    ELSE {<<Head(s)>> \o r : r \in Interleavings(Tail(s), t)}
           \cup {<<Head(t)>> \o r : r \in Interleavings(s, Tail(t))}

\* the declarations of n workspaces, q of them with integer-like names:
\* one such name, or the two in either order
Declarations(n, q) ==
    LET plain == Declared(n - q)
    IN  IF q = 0 THEN {plain}
        ELSE IF q = 1 THEN Interleavings(plain, SubSeq(IndexNames, 1, 1))
        ELSE Interleavings(plain, IndexNames)
               \cup Interleavings(plain, Reverse(IndexNames))

\* the numbers of integer-like names n declared workspaces can have
IndexCounts(n) == {q \in 0..Len(IndexNames) : q <= n}

\* the index keys of a set in ascending numeric order
RECURSIVE ascending(_)
ascending(S) ==
    IF S = {} THEN <<>>
    ELSE LET least == CHOOSE k \in S :
                        \A x \in S : IndexValue(k) <= IndexValue(x)
         IN  <<least>> \o ascending(S \ {least})

\* Object.keys of an object whose properties were created in the order
\* keys, which is also the order of Object.entries and of the js-yaml
\* mapping: index keys first, in ascending numeric order, then the other
\* keys in the order of their creation
objectKeys(keys) ==
    ascending(Range(keys) \cap IndexKeys)
      \o SelectSeq(keys, LAMBDA k : k \notin IndexKeys)

\* the names of n declared workspaces, q of them integer-like
DeclaredNames(n, q) == NameSet(n - q) \cup {IndexNames[i] : i \in 1..q}

\* the dependsOn maps that hold the entries of m and one more, at the end
\* of the dependsOn of one of the n workspaces; an entry names a declared
\* workspace (itself included), the undeclared name or the inherited name
WithEntry(m, n, q) ==
    {[m EXCEPT ![w] = Append(@, d)] :
       w \in DeclaredNames(n, q),
       d \in DeclaredNames(n, q) \cup {Undeclared, Inherited}}

\* dependsOn maps of n workspaces, q of them with integer-like names, with
\* exactly k entries in total
RECURSIVE DepMaps(_, _, _)
DepMaps(n, q, k) ==
    IF k = 0 THEN {[w \in DeclaredNames(n, q) |-> <<>>]}
    ELSE UNION {WithEntry(m, n, q) : m \in DepMaps(n, q, k - 1)}

\* the most dependsOn entries a resolver configuration of n workspaces has,
\* q of them with integer-like names
MostEntries(n, q) ==
    IF q = 0 \/ MaxIndexedSize - n > MaxEdges
      THEN MaxEdges ELSE MaxIndexedSize - n

(***************************************************************************)
(* dependency-resolver.ts                                                  *)
(***************************************************************************)
\* An Error of the resolver. kind: none | cycle | unknown | self;
\* path: the names joined by ' -> ' in the circular-dependency message;
\* ws, dep: the names quoted in the other two messages;
\* wrapped: the message is prefixed by 'Dependency validation failed: '.
NoError ==
    [kind |-> "none", path |-> <<>>, ws |-> NoName, dep |-> NoName,
     wrapped |-> FALSE]

CycleError(path) == [NoError EXCEPT !.kind = "cycle", !.path = path]
UnknownError(ws, dep) ==
    [NoError EXCEPT !.kind = "unknown", !.ws = ws, !.dep = dep]
SelfError(ws) == [NoError EXCEPT !.kind = "self", !.ws = ws]

\* 'workspaces[name]' is truthy: the property lookup finds the object of a
\* declared workspace or a member inherited from Object.prototype
found(ns, name) == name \in Range(ns) \/ name \in ObjectPrototype

\* 'workspace?.dependsOn || []' of 'workspaces[name]'
dependenciesOf(ns, deps, name) ==
    IF name \in Range(ns) THEN deps[name] ELSE <<>>

\* visit(name, path) of topologicalSort, on the closure state
\* st = [sorted, visited, visiting, err]; a throw sets err and unwinds.
RECURSIVE visit(_, _, _, _, _)
RECURSIVE visitDeps(_, _, _, _, _, _)
visit(ns, deps, name, path, st) ==
    IF st.err.kind # "none" THEN st
    ELSE IF name \in st.visiting
      THEN [st EXCEPT !.err = CycleError(Append(path, name))]
    ELSE IF name \in st.visited THEN st
    ELSE LET entered == [st EXCEPT !.visiting = @ \cup {name}]
             after == visitDeps(ns, deps, name, 1, Append(path, name),
                                entered)
         IN  IF after.err.kind # "none" THEN after
             ELSE [after EXCEPT !.visiting = @ \ {name},
                                !.visited = @ \cup {name},
                                !.sorted = Append(@, name)]

\* the loop over the dependencies of name, from its i-th entry on
visitDeps(ns, deps, name, i, path, st) ==
    IF st.err.kind # "none" \/ i > Len(dependenciesOf(ns, deps, name))
      THEN st
    ELSE LET dep == dependenciesOf(ns, deps, name)[i]
         IN  IF ~found(ns, dep)
               THEN [st EXCEPT !.err = UnknownError(name, dep)]
               ELSE visitDeps(ns, deps, name, i + 1, path,
                              visit(ns, deps, dep, path, st))

\* the outer loop 'for (const name of names) visit(name)', from index i on
RECURSIVE visitAll(_, _, _, _)
visitAll(ns, deps, i, st) ==
    IF st.err.kind # "none" \/ i > Len(ns) THEN st
    ELSE visitAll(ns, deps, i + 1, visit(ns, deps, ns[i], <<>>, st))

topologicalSort(ns, deps) ==
    LET st == visitAll(ns, deps, 1,
                       [sorted |-> <<>>, visited |-> {}, visiting |-> {},
                        err |-> NoError])
    IN  [order |-> IF st.err.kind = "none" THEN st.sorted ELSE <<>>,
         err |-> st.err]

\* destroy without the .reverse()
resolveExecutionOrderUnreversed(act, ns, deps) ==
    LET workspaceNames == objectKeys(ns)
    IN  IF act \in {"create", "delete"}
          THEN [order |-> workspaceNames, err |-> NoError]
          ELSE topologicalSort(workspaceNames, deps)

\* apply without ordering: the names as enumerated
resolveExecutionOrderUnsorted(act, ns, deps) ==
    LET workspaceNames == objectKeys(ns)
    IN  IF act \in {"create", "delete", "apply"}
          THEN [order |-> workspaceNames, err |-> NoError]
          ELSE LET t == topologicalSort(workspaceNames, deps)
               IN  [order |-> Reverse(t.order), err |-> t.err]

\* resolveExecutionOrder(config) for a configuration whose workspaces are
\* declared in the order ns
resolveExecutionOrder(act, ns, deps) ==
    LET workspaceNames == objectKeys(ns)
    IN  IF act \in {"create", "delete"}
          THEN [order |-> workspaceNames, err |-> NoError]
        ELSE IF act = "apply" THEN topologicalSort(workspaceNames, deps)
        ELSE LET t == topologicalSort(workspaceNames, deps)
             IN  [order |-> Reverse(t.order), err |-> t.err]

\* the scan without the self-dependency check
RECURSIVE scanDependenciesNoSelf(_, _, _, _)
scanDependenciesNoSelf(ns, deps, i, j) ==
    IF i > Len(ns) THEN NoError
    ELSE IF j > Len(deps[ns[i]])
      THEN scanDependenciesNoSelf(ns, deps, i + 1, 1)
    ELSE LET name == ns[i]
             dep == deps[name][j]
         IN  IF dep \notin Range(ns) THEN UnknownError(name, dep)
             ELSE scanDependenciesNoSelf(ns, deps, i, j + 1)

\* the scan without the existence check
RECURSIVE scanDependenciesNoUnknown(_, _, _, _)
scanDependenciesNoUnknown(ns, deps, i, j) ==
    IF i > Len(ns) THEN NoError
    ELSE IF j > Len(deps[ns[i]])
      THEN scanDependenciesNoUnknown(ns, deps, i + 1, 1)
    ELSE LET name == ns[i]
             dep == deps[name][j]
         IN  IF dep = name THEN SelfError(name)
             ELSE scanDependenciesNoUnknown(ns, deps, i, j + 1)

\* the two nested loops of validateDependencies, from entry j of the
\* dependsOn of the i-th workspace on: the first defect found is thrown
RECURSIVE scanDependencies(_, _, _, _)
scanDependencies(ns, deps, i, j) ==
    IF i > Len(ns) THEN NoError
    ELSE IF j > Len(deps[ns[i]]) THEN scanDependencies(ns, deps, i + 1, 1)
    ELSE LET name == ns[i]
             dep == deps[name][j]
         IN  IF dep \notin Range(ns) THEN UnknownError(name, dep)
             ELSE IF dep = name THEN SelfError(name)
             ELSE scanDependencies(ns, deps, i, j + 1)

\* validateDependencies running its cycle detection for every action
validateDependenciesCycleCheckAlways(act, ns, deps) ==
    LET first == scanDependencies(objectKeys(ns), deps, 1, 1)
    IN  IF first.kind # "none" THEN first
        ELSE LET r == topologicalSort(objectKeys(ns), deps)
             IN  IF r.err.kind # "none"
                   THEN [r.err EXCEPT !.wrapped = TRUE]
                   ELSE NoError

\* validateDependencies(config) for a configuration whose workspaces are
\* declared in the order ns: the scan takes them as Object.entries does
validateDependencies(act, ns, deps) ==
    LET first == scanDependencies(objectKeys(ns), deps, 1, 1)
    IN  IF first.kind # "none" THEN first
        ELSE IF act \in {"apply", "destroy"}
          THEN LET r == resolveExecutionOrder(act, ns, deps)
               IN  IF r.err.kind # "none"
                     THEN [r.err EXCEPT !.wrapped = TRUE]
                     ELSE NoError
          ELSE NoError

\* the plan computed, and discarded, by the trial resolution inside
\* validateDependencies; empty when the trial is not reached or throws
trialResolution(act, ns, deps) ==
    IF scanDependencies(objectKeys(ns), deps, 1, 1).kind = "none"
       /\ act \in {"apply", "destroy"}
      THEN resolveExecutionOrder(act, ns, deps).order
      ELSE <<>>

(***************************************************************************)
(* SpecResolver: the two exported functions of the resolver, each called   *)
(* once on the configuration drawn by the initial state.                   *)
(***************************************************************************)
NotCalled == [called |-> FALSE, order |-> <<>>, err |-> NoError]

NoOptions == [varset |-> "none", variables |-> 0]
\* no poll has been answered yet
NoPoll == [workspace |-> NoName, status |-> "none"]
\* waitForRun has not been called
NoOutcome == [kind |-> "none", status |-> "none", error |-> "none",
              run |-> "none", seconds |-> <<>>]
\* setFailed was not called; no output was set
NotFailed == [kind |-> "none", count |-> 0, message |-> "none"]
NoOutput == [id |-> "none", url |-> "none"]

\* run() is not running
IdleRun ==
    /\ rpc = "idle"
    /\ client = FALSE
    /\ setFailed = NotFailed
    /\ output = NoOutput

IdleWait ==
    /\ wpc = "idle"
    /\ clock = 0
    /\ loopNow = 0
    /\ startTime = 0
    /\ timeout = 0
    /\ polled = 0
    /\ observed = {}
    /\ wret = NoOutcome

IdleExecute ==
    /\ pc = "idle"
    /\ thrown = NoError
    /\ plan = <<>>
    /\ cur = 0
    /\ task = <<>>
    /\ calls = <<>>
    /\ failed = {}
    /\ results = <<>>
    /\ lastPoll = NoPoll
    /\ firstSettled = NoName

InitResolver ==
    /\ \E n \in 1..MaxWs : \E q \in IndexCounts(n) :
         /\ q > 0 => n <= MaxIndexedSize
         /\ names \in Declarations(n, q)
         /\ \E k \in 0..MostEntries(n, q) :
              IF k = 0 THEN dependsOn \in DepMaps(n, q, 0)
              ELSE \E m \in DepMaps(n, q, k - 1) :
                     dependsOn \in WithEntry(m, n, q)
         /\ options = [w \in Range(names) |-> NoOptions]
    /\ action \in ActionTypes
    /\ vout = NotCalled
    /\ rout = NotCalled
    /\ IdleExecute
    /\ IdleWait
    /\ IdleRun

CallValidateDependencies ==
    /\ pc = "idle"
    /\ ~vout.called
    /\ vout' = [called |-> TRUE,
                order |-> trialResolution(action, names, dependsOn),
                err |-> validateDependencies(action, names, dependsOn)]
    /\ UNCHANGED <<action, names, dependsOn, options, rout,
                   pc, thrown, plan, cur, task, calls, failed, results,
                   lastPoll, firstSettled, waitVars, runVars>>

\* resolveExecutionOrder with a visited set that outlives the call: the
\* names the trial resolution marked done are still marked
CallResolveExecutionOrderKeepingVisited ==
    /\ pc = "idle"
    /\ ~rout.called
    /\ rout' = LET st == visitAll(objectKeys(names), dependsOn, 1,
                                  [sorted |-> <<>>,
                                   visited |-> Range(vout.order),
                                   visiting |-> {}, err |-> NoError])
                   sorted == IF st.err.kind = "none" THEN st.sorted
                             ELSE <<>>
               IN  IF action \in {"create", "delete"}
                     THEN [called |-> TRUE, order |-> objectKeys(names),
                           err |-> NoError]
                     ELSE [called |-> TRUE,
                           order |-> IF action = "apply" THEN sorted
                                     ELSE Reverse(sorted),
                           err |-> st.err]
    /\ UNCHANGED <<action, names, dependsOn, options, vout,
                   pc, thrown, plan, cur, task, calls, failed, results,
                   lastPoll, firstSettled, waitVars, runVars>>

CallResolveExecutionOrder ==
    /\ pc = "idle"
    /\ ~rout.called
    /\ rout' = LET r == resolveExecutionOrder(action, names, dependsOn)
               IN  [called |-> TRUE, order |-> r.order, err |-> r.err]
    /\ UNCHANGED <<action, names, dependsOn, options, vout,
                   pc, thrown, plan, cur, task, calls, failed, results,
                   lastPoll, firstSettled, waitVars, runVars>>

NextResolver == CallValidateDependencies \/ CallResolveExecutionOrder

SpecResolver == InitResolver /\ [][NextResolver]_vars

(***************************************************************************)
(* workspace-manager.ts and tfe-client.ts: WorkspaceManager.execute.       *)
(***************************************************************************)
\* largest configuration handed to execute, counted in workspaces plus
\* entries (dependsOn entries, variable-set-ids and variables)
MaxSize == 4
\* most polls waitForRun issues for one run: after the sleep that follows
\* the last of them the deadline of waitForRun has passed
MaxPolls == 2

\* what the backend answers: the id and html-url of a workspace, the id of
\* the run created for it
WsId == [w \in Range(NamePool) \cup Range(IndexNames) |->
           CASE w = "a" -> "ws-a" [] w = "b" -> "ws-b" [] w = "c" -> "ws-c"
             [] w = "d" -> "ws-d" [] w = "e" -> "ws-e" [] w = "f" -> "ws-f"
             [] w = "9" -> "ws-9" [] OTHER -> "ws-10"]
WsUrl == [w \in Range(NamePool) \cup Range(IndexNames) |->
           CASE w = "a" -> "url-a" [] w = "b" -> "url-b" [] w = "c" -> "url-c"
             [] w = "d" -> "url-d" [] w = "e" -> "url-e" [] w = "f" -> "url-f"
             [] w = "9" -> "url-9" [] OTHER -> "url-10"]
RunId == [w \in Range(NamePool) \cup Range(IndexNames) |->
           CASE w = "a" -> "run-a" [] w = "b" -> "run-b" [] w = "c" -> "run-c"
             [] w = "d" -> "run-d" [] w = "e" -> "run-e" [] w = "f" -> "run-f"
             [] w = "9" -> "run-9" [] OTHER -> "run-10"]
\* the one variable-set-id configurations use, and the variable keys of a
\* workspace in configured order
VarSetId == "varset-1"
KeyPool == <<"env", "region", "2", "zone", "1", "tier">>
None == "none"

\* options maps of the workspaces S built from at most k entries: an entry
\* sets the variable-set-id of a workspace or adds a variable to it
RECURSIVE OptMaps(_, _)
OptMaps(S, k) ==
    IF k = 0 THEN {[w \in S |-> NoOptions]}
    ELSE OptMaps(S, k - 1)
         \cup {[m EXCEPT ![w].varset = VarSetId] :
                 m \in OptMaps(S, k - 1), w \in S}
         \cup {[m EXCEPT ![w].variables = @ + 1] :
                 m \in OptMaps(S, k - 1), w \in S}

\* RunStatus values a poll can observe; Planning stands for every status
\* that is not terminal
\* terminalStates without 'applied'
terminalStatesWithoutApplied ==
    {"errored", "canceled", "force_canceled", "discarded"}

terminalStates == {"applied", "errored", "canceled", "force_canceled",
                   "discarded"}
Planning == "planning"
\* the statuses a poll can report
RunStatus == {"applied", "errored", "canceled", "force_canceled",
              "discarded", Planning}

\* error.message of the Errors the client throws
ErrCreateWorkspace == "Failed to create workspace"
ErrAttach == "Failed to attach variable set"
ErrCreateVariable == "Failed to create variable"
ErrDelete == "Failed to delete workspace"
ErrGetWorkspace == "Failed to get workspace"
ErrCreateRun == "Failed to create run"
ErrRunFailed == "Run failed with status: errored"
ErrTimedOut == "Run timed out"
ErrPoll == "Failed to get run status"

\* the ways a poll fails: a status code other than 200, a response without
\* a body, getJson rejecting with an Error, and a thrown value that is not
\* an Error
PollFailures == {"http", "empty", "transport", "nonError"}
ErrNoData == "No response data from TFE API"
ErrTransport == "message of the Error getJson rejected with"
ErrPollWrapped == "Failed to poll run status"
pollError(failure) ==
    CASE failure = "http" -> ErrPoll
      [] failure = "empty" -> ErrNoData
      [] failure = "transport" -> ErrTransport
      [] OTHER -> ErrPollWrapped
\* the messages of a failed poll
PollErrors == {pollError(failure) : failure \in PollFailures}

\* WorkspaceOperationResult; None for an absent optional field
NoResult ==
    [workspace |-> NoName, success |-> FALSE, workspaceId |-> None,
     workspaceUrl |-> None, error |-> None]
Success(w, id, url) ==
    [workspace |-> w, success |-> TRUE, workspaceId |-> id,
     workspaceUrl |-> url, error |-> None]
Failure(w, message) ==
    [workspace |-> w, success |-> FALSE, workspaceId |-> None,
     workspaceUrl |-> None, error |-> message]

\* a request to the backend: kind of call, the entity it addresses, its
\* further argument, and the boolean attributes of its payload that are true
Call(kind, target, arg) ==
    [kind |-> kind, target |-> target, arg |-> arg, flags |-> {}]
CallCreateWorkspace(w) == Call("createWorkspace", w, None)
\* attachVariableSet given the id of the first workspace of the pool
CallAttachVariableSetOfFirst(w) ==
    Call("attachVariableSet", VarSetId, WsId[NamePool[1]])

CallAttachVariableSet(w) == Call("attachVariableSet", VarSetId, WsId[w])
\* the keys of the variables a workspace configures, in configured order
configuredKeys(n) == SubSeq(KeyPool, 1, n)

\* the order in which 'for (const [key, value] of Object.entries(variables))'
\* takes the keys of an object whose properties were set in the order keys:
\* the order of Object.keys
objectEntries(keys) == objectKeys(keys)

CallCreateVariable(w, i) ==
    Call("createVariable", WsId[w],
         objectEntries(configuredKeys(options[w].variables))[i])
CallDeleteWorkspace(w) == Call("deleteWorkspace", w, None)
CallGetWorkspace(w) == Call("getWorkspace", w, None)
\* createRun(workspaceId, message, isDestroy, autoApply): the payload
\* carries the message, 'is-destroy' and 'auto-apply'
CallCreateRun(w, message, isDestroy, autoApply) ==
    [Call("createRun", WsId[w], message) EXCEPT
       !.flags = (IF isDestroy THEN {"is-destroy"} ELSE {})
                   \cup (IF autoApply THEN {"auto-apply"} ELSE {})]
MsgApply == "Apply triggered by GitHub Actions"
MsgDestroy == "Destroy triggered by GitHub Actions"

\* applySingleWorkspace creating a destroy run
applySingleWorkspaceRunDestroying(w) ==
    CallCreateRun(w, MsgApply, TRUE, TRUE)

\* the createRun calls of applySingleWorkspace and destroySingleWorkspace
applySingleWorkspaceRun(w) == CallCreateRun(w, MsgApply, FALSE, TRUE)
destroySingleWorkspaceRun(w) == CallCreateRun(w, MsgDestroy, TRUE, TRUE)
CallPoll(w) == Call("poll", RunId[w], None)

\* the attempt of a workspace: the await it is suspended on (idle before it
\* starts, done once its promise is resolved), the variable being created
\* or the polls issued so far, and the result its promise resolved with
Idle == [step |-> "idle", n |-> 0, result |-> NoResult]
Awaiting(step, n) == [step |-> step, n |-> n, result |-> NoResult]
Done(res) == [step |-> "done", n |-> 0, result |-> res]

\* execute is called with a configuration of at most MaxSize workspaces and
\* entries, where a workspace with an integer-like name counts three times.
\* applySingleWorkspace and destroySingleWorkspace are given only the name
\* of a workspace and never read its options, so configurations for apply
\* and destroy are drawn without options.
IsConfiguration(act, ns, deps, opts, size) ==
    /\ act \in ActionTypes
    /\ \E n \in 1..MaxWs : \E q \in IndexCounts(n) : \E e \in 0..size :
         /\ n + 2 * q + e <= size
         /\ ns \in Declarations(n, q)
         /\ deps \in DepMaps(n, q, e)
         /\ opts \in IF act \in {"apply", "destroy"}
                       THEN {[w \in Range(ns) |-> NoOptions]}
                       ELSE OptMaps(Range(ns), size - n - 2 * q - e)

ExecuteConfiguration ==
    IsConfiguration(action, names, dependsOn, options, MaxSize)

Init ==
    /\ ExecuteConfiguration
    /\ vout = NotCalled
    /\ rout = NotCalled
    /\ pc = "start"
    /\ thrown = NoError
    /\ plan = <<>>
    /\ cur = 0
    /\ task = [w \in Range(names) |-> Idle]
    /\ calls = [w \in Range(names) |-> {}]
    /\ failed = {}
    /\ results = <<>>
    /\ lastPoll = NoPoll
    /\ firstSettled = NoName
    /\ IdleWait
    /\ IdleRun

\* what execute never writes: its configuration and the variables of the
\* other specifications
Config == <<action, names, dependsOn, options, vout, rout, waitVars,
            runVars>>

\* execute without the call of validateDependencies
executeErrorUnvalidated(act, ns, deps) ==
    resolveExecutionOrder(act, ns, deps).err

\* what the first two statements of execute throw: the error of
\* validateDependencies, else the error of resolveExecutionOrder
executeError(act, ns, deps) ==
    LET v == validateDependencies(act, ns, deps)
    IN  IF v.kind # "none" THEN v
        ELSE resolveExecutionOrder(act, ns, deps).err

\* execute throws before its switch: the promise is rejected
executeRejects ==
    /\ pc = "start"
    /\ executeError(action, names, dependsOn).kind # "none"
    /\ pc' = "threw"
    /\ thrown' = executeError(action, names, dependsOn)
    /\ UNCHANGED <<Config, plan, cur, task, calls, failed, results,
                   lastPoll, firstSettled>>

\* createWorkspaces / deleteWorkspaces starting only the attempt of the
\* first workspace of the plan
dispatchFirstOnly(step) ==
    /\ pc = "start"
    /\ executeError(action, names, dependsOn).kind = "none"
    /\ LET order == resolveExecutionOrder(action, names, dependsOn).order
       IN  /\ plan' = order
           /\ task' = [task EXCEPT ![order[1]] = Awaiting(step, 0)]
           /\ calls' = [calls EXCEPT ![order[1]] = {Call(step, order[1], None)}]
    /\ pc' = "running"
    /\ UNCHANGED <<Config, thrown, cur, failed, results, lastPoll,
                   firstSettled>>

\* execute up to Promise.all of createWorkspaces / deleteWorkspaces: map()
\* starts every attempt, each runs up to the await of its first request
dispatchAll(step) ==
    /\ pc = "start"
    /\ executeError(action, names, dependsOn).kind = "none"
    /\ plan' = resolveExecutionOrder(action, names, dependsOn).order
    /\ pc' = "running"
    /\ task' = [w \in Range(names) |-> Awaiting(step, 0)]
    /\ calls' = [w \in Range(names) |-> {Call(step, w, None)}]
    /\ UNCHANGED <<Config, thrown, cur, failed, results, lastPoll,
                   firstSettled>>

createWorkspaces ==
    /\ action = "create"
    /\ dispatchAll("createWorkspace")

deleteWorkspaces ==
    /\ action = "delete"
    /\ dispatchAll("deleteWorkspace")

\* applyWorkspaces / destroyWorkspaces starting the attempts of all the
\* workspaces of the plan at once
startSequentialAllAtOnce ==
    /\ pc = "start"
    /\ executeError(action, names, dependsOn).kind = "none"
    /\ plan' = resolveExecutionOrder(action, names, dependsOn).order
    /\ pc' = "running"
    /\ cur' = 1
    /\ task' = [w \in Range(names) |-> Awaiting("getWorkspace", 0)]
    /\ calls' = [w \in Range(names) |-> {CallGetWorkspace(w)}]
    /\ UNCHANGED <<Config, thrown, failed, results, lastPoll, firstSettled>>

\* applyWorkspaces / destroyWorkspaces iterating over the reverse of the
\* names they are given
startSequentialReversed ==
    /\ pc = "start"
    /\ executeError(action, names, dependsOn).kind = "none"
    /\ LET order ==
             Reverse(resolveExecutionOrder(action, names, dependsOn).order)
       IN  /\ plan' = order
           /\ pc' = "running"
           /\ cur' = 1
           /\ task' = [task EXCEPT ![order[1]] = Awaiting("getWorkspace", 0)]
           /\ calls' = [calls EXCEPT ![order[1]] = {CallGetWorkspace(order[1])}]
    /\ UNCHANGED <<Config, thrown, failed, results, lastPoll, firstSettled>>

\* execute up to the first await of applyWorkspaces / destroyWorkspaces: the
\* loop starts the attempt of the first workspace of the plan, which runs up
\* to the await of getWorkspace
startSequential ==
    /\ pc = "start"
    /\ executeError(action, names, dependsOn).kind = "none"
    /\ LET order == resolveExecutionOrder(action, names, dependsOn).order
       IN  /\ plan' = order
           /\ pc' = "running"
           /\ cur' = 1
           /\ task' = [task EXCEPT ![order[1]] = Awaiting("getWorkspace", 0)]
           /\ calls' = [calls EXCEPT ![order[1]] = {CallGetWorkspace(order[1])}]
    /\ UNCHANGED <<Config, thrown, failed, results, lastPoll, firstSettled>>

applyWorkspaces ==
    /\ action = "apply"
    /\ startSequential

destroyWorkspaces ==
    /\ action = "destroy"
    /\ startSequential

\* the attempt of w is the first one to resolve, or a later one
noteSettled(w) ==
    firstSettled' = IF firstSettled = NoName THEN w ELSE firstSettled

\* results collected in the order in which the attempts resolve
settleParallelInCompletionOrder(w, res) ==
    /\ task' = [task EXCEPT ![w] = Done(res)]
    /\ results' = Append(results, res)
    /\ pc' = IF \A x \in Range(plan) \ {w} : task[x].step = "done"
               THEN "returned" ELSE pc
    /\ noteSettled(w)
    /\ UNCHANGED <<Config, thrown, plan, cur, calls>>

\* the attempt of w resolves with res inside Promise.all: when it is the
\* last one, Promise.all resolves with the results in the order of the
\* promises, and execute returns them
settleParallel(w, res) ==
    /\ task' = [task EXCEPT ![w] = Done(res)]
    /\ IF \A x \in Range(plan) \ {w} : task[x].step = "done"
         THEN /\ pc' = "returned"
              /\ results' = [i \in 1..Len(plan) |->
                               IF plan[i] = w THEN res
                               ELSE task[plan[i]].result]
         ELSE UNCHANGED <<pc, results>>
    /\ noteSettled(w)
    /\ UNCHANGED <<Config, thrown, plan, cur, calls>>

\* a catch that rethrows: Promise.all, and with it execute, is rejected
catchRethrows(w, message) ==
    /\ task' = [task EXCEPT ![w] = Done(Failure(w, message))]
    /\ pc' = "threw"
    /\ thrown' = [NoError EXCEPT !.kind = "backend"]
    /\ failed' = failed \cup {w}
    /\ noteSettled(w)
    /\ UNCHANGED <<Config, plan, cur, calls, results>>

\* the loop of applyWorkspaces / destroyWorkspaces keeping only the latest
\* result
pushAndLoopKeepingLatest(w, res, stop) ==
    /\ results' = <<res>>
    /\ IF stop
         THEN /\ pc' = "returned"
              /\ task' = [task EXCEPT ![w] = Done(res)]
              /\ UNCHANGED <<cur, calls>>
         ELSE LET next == plan[cur + 1]
              IN  /\ cur' = cur + 1
                  /\ task' = [task EXCEPT ![w] = Done(res),
                                          ![next] = Awaiting("getWorkspace", 0)]
                  /\ calls' = [calls EXCEPT
                                 ![next] = @ \cup {CallGetWorkspace(next)}]
                  /\ UNCHANGED pc
    /\ noteSettled(w)
    /\ UNCHANGED <<Config, thrown, plan>>

\* the loop of applyWorkspaces / destroyWorkspaces after the await of the
\* attempt of w, which resolved with res: push the result, then return when
\* stop (a break, or the plan is exhausted), else start the next attempt,
\* which runs up to the await of getWorkspace
pushAndLoop(w, res, stop) ==
    /\ results' = Append(results, res)
    /\ IF stop
         THEN /\ pc' = "returned"
              /\ task' = [task EXCEPT ![w] = Done(res)]
              /\ UNCHANGED <<cur, calls>>
         ELSE LET next == plan[cur + 1]
              IN  /\ cur' = cur + 1
                  /\ task' = [task EXCEPT ![w] = Done(res),
                                          ![next] = Awaiting("getWorkspace", 0)]
                  /\ calls' = [calls EXCEPT
                                 ![next] = @ \cup {CallGetWorkspace(next)}]
                  /\ UNCHANGED pc
    /\ noteSettled(w)
    /\ UNCHANGED <<Config, thrown, plan>>

\* the loop of applyWorkspaces without its break
applyWorkspacesLoopNoBreak(w, res) ==
    pushAndLoop(w, res, cur = Len(plan))

\* the loop of applyWorkspaces: 'if (!result.success) break'
applyWorkspacesLoop(w, res) ==
    pushAndLoop(w, res, ~res.success \/ cur = Len(plan))

\* the loop of destroyWorkspaces with the break of applyWorkspaces
destroyWorkspacesLoopBreaks(w, res) ==
    pushAndLoop(w, res, ~res.success \/ cur = Len(plan))

\* the loop of destroyWorkspaces: a failure is logged, the loop goes on
destroyWorkspacesLoop(w, res) ==
    pushAndLoop(w, res, cur = Len(plan))

\* the attempt of w (applySingleWorkspace / destroySingleWorkspace) resolves
\* with res; fault tells whether the backend let the workspace down
settleSequential(w, res, fault) ==
    /\ failed' = IF fault THEN failed \cup {w} ELSE failed
    /\ IF action = "apply" THEN applyWorkspacesLoop(w, res)
                           ELSE destroyWorkspacesLoop(w, res)

\* the attempt of w goes on to await another request
suspend(w, step, n, call) ==
    /\ task' = [task EXCEPT ![w] = Awaiting(step, n)]
    /\ calls' = [calls EXCEPT ![w] = @ \cup {call}]
    /\ UNCHANGED <<Config, pc, thrown, plan, cur, failed, results,
                   firstSettled>>

\* createVariables leaving out the variable after each one it creates
createVariablesFromSkippingOne(w, i) ==
    IF i + 1 <= options[w].variables
      THEN suspend(w, "createVariable", i + 1, CallCreateVariable(w, i + 1))
      ELSE /\ settleParallel(w, Success(w, WsId[w], WsUrl[w]))
           /\ UNCHANGED failed

\* createSingleWorkspace from 'Create variables if provided' on, and
\* createVariables from its i-th variable on
createVariablesFrom(w, i) ==
    IF i <= options[w].variables
      THEN suspend(w, "createVariable", i, CallCreateVariable(w, i))
      ELSE /\ settleParallel(w, Success(w, WsId[w], WsUrl[w]))
           /\ UNCHANGED failed

\* the catch of createSingleWorkspace rolling back: it issues a
\* deleteWorkspace for the workspace before it returns the failure
createSingleWorkspaceCatchRollingBack(w, message) ==
    /\ task' = [task EXCEPT ![w] = Done(Failure(w, message))]
    /\ calls' = [calls EXCEPT ![w] = @ \cup {CallDeleteWorkspace(w)}]
    /\ IF \A x \in Range(plan) \ {w} : task[x].step = "done"
         THEN /\ pc' = "returned"
              /\ results' = [i \in 1..Len(plan) |->
                               IF plan[i] = w THEN Failure(w, message)
                               ELSE task[plan[i]].result]
         ELSE UNCHANGED <<pc, results>>
    /\ noteSettled(w)
    /\ failed' = failed \cup {w}
    /\ UNCHANGED <<Config, thrown, plan, cur>>

\* the catch of createSingleWorkspace reporting the id of the workspace
createSingleWorkspaceCatchWithId(w, message) ==
    /\ settleParallel(w, [Failure(w, message) EXCEPT
                            !.workspaceId = WsId[w]])
    /\ failed' = failed \cup {w}

\* the catch of createSingleWorkspace: a request of w failed
createSingleWorkspaceCatch(w, message) ==
    /\ settleParallel(w, Failure(w, message))
    /\ failed' = failed \cup {w}

\* the catch of deleteSingleWorkspace
deleteSingleWorkspaceCatch(w, message) ==
    /\ settleParallel(w, Failure(w, message))
    /\ failed' = failed \cup {w}

\* the response to createWorkspace arrives
createWorkspaceResponds(w) ==
    /\ pc = "running"
    /\ task[w].step = "createWorkspace"
    /\ UNCHANGED lastPoll
    /\ \E ok \in BOOLEAN :
         IF ~ok THEN createSingleWorkspaceCatch(w, ErrCreateWorkspace)
         ELSE IF options[w].varset # None
           THEN suspend(w, "attachVariableSet", 0, CallAttachVariableSet(w))
           ELSE createVariablesFrom(w, 1)

\* the response to attachVariableSet arrives
attachVariableSetResponds(w) ==
    /\ pc = "running"
    /\ task[w].step = "attachVariableSet"
    /\ UNCHANGED lastPoll
    /\ \E ok \in BOOLEAN :
         IF ~ok THEN createSingleWorkspaceCatch(w, ErrAttach)
         ELSE createVariablesFrom(w, 1)

\* the response to the post of the variable being created arrives
createVariableResponds(w) ==
    /\ pc = "running"
    /\ task[w].step = "createVariable"
    /\ UNCHANGED lastPoll
    /\ \E ok \in BOOLEAN :
         IF ~ok THEN createSingleWorkspaceCatch(w, ErrCreateVariable)
         ELSE createVariablesFrom(w, task[w].n + 1)

\* the response to deleteWorkspace arrives: deleteSingleWorkspace returns
deleteWorkspaceResponds(w) ==
    /\ pc = "running"
    /\ task[w].step = "deleteWorkspace"
    /\ UNCHANGED lastPoll
    /\ \E ok \in BOOLEAN :
         IF ok THEN /\ settleParallel(w, Success(w, None, None))
                    /\ UNCHANGED failed
         ELSE deleteSingleWorkspaceCatch(w, ErrDelete)

\* applySingleWorkspace / destroySingleWorkspace going on to createRun
\* whatever getWorkspace answered
getWorkspaceRespondsIgnoringFailure(w) ==
    /\ pc = "running"
    /\ task[w].step = "getWorkspace"
    /\ UNCHANGED lastPoll
    /\ \E ok \in BOOLEAN :
         /\ failed' = IF ok THEN failed ELSE failed \cup {w}
         /\ task' = [task EXCEPT ![w] = Awaiting("createRun", 0)]
         /\ calls' = [calls EXCEPT
                        ![w] = @ \cup {IF action = "destroy"
                                         THEN destroySingleWorkspaceRun(w)
                                         ELSE applySingleWorkspaceRun(w)}]
         /\ UNCHANGED <<Config, pc, thrown, plan, cur, results,
                        firstSettled>>

\* the response to getWorkspace arrives in applySingleWorkspace /
\* destroySingleWorkspace
getWorkspaceResponds(w) ==
    /\ pc = "running"
    /\ task[w].step = "getWorkspace"
    /\ UNCHANGED lastPoll
    /\ \E ok \in BOOLEAN :
         IF ok
           THEN suspend(w, "createRun", 0,
                        IF action = "destroy"
                          THEN destroySingleWorkspaceRun(w)
                          ELSE applySingleWorkspaceRun(w))
           ELSE settleSequential(w, Failure(w, ErrGetWorkspace), TRUE)

\* the response to createRun arrives; on success waitForRun starts: it
\* reads the clock for startTime and again for its first deadline check,
\* and throws without polling when the clock has passed the deadline in
\* between, else it issues its first poll
createRunResponds(w) ==
    /\ pc = "running"
    /\ task[w].step = "createRun"
    /\ UNCHANGED lastPoll
    /\ \E ok \in BOOLEAN :
         IF ok
           THEN \E timedOut \in BOOLEAN :
                  IF timedOut
                    THEN settleSequential(w, Failure(w, ErrTimedOut), TRUE)
                    ELSE suspend(w, "poll", 1, CallPoll(w))
           ELSE settleSequential(w, Failure(w, ErrCreateRun), TRUE)

\* the response to a poll of waitForRun arrives: a failed request and an
\* errored run throw, the other terminal statuses return the run, any other
\* status starts the poll interval's timer
pollResponds(w) ==
    /\ pc = "running"
    /\ task[w].step = "poll"
    /\ \E answer \in PollFailures \cup RunStatus :
         /\ lastPoll' = [workspace |-> w,
                         status |-> IF answer \in PollFailures THEN "fail"
                                    ELSE answer]
         /\ IF answer \in PollFailures
              THEN settleSequential(w, Failure(w, pollError(answer)), TRUE)
            ELSE IF answer = "errored"
              THEN settleSequential(w, Failure(w, ErrRunFailed), TRUE)
            ELSE IF answer \in terminalStates
              THEN settleSequential(w, Success(w, WsId[w], None), FALSE)
            ELSE /\ task' = [task EXCEPT ![w] = Awaiting("sleep", task[w].n)]
                 /\ UNCHANGED <<Config, pc, thrown, plan, cur, calls,
                                failed, results, firstSettled>>

\* waitForRun without its deadline: the timer fires and the loop polls
\* again, whatever the time
pollTimerFiresWithoutDeadline(w) ==
    /\ pc = "running"
    /\ task[w].step = "sleep"
    /\ UNCHANGED lastPoll
    /\ suspend(w, "poll", task[w].n, CallPoll(w))

\* the timer of the poll interval fires: waitForRun checks the deadline
\* against the clock and throws or polls again; the deadline may pass at any
\* poll and has passed after MaxPolls polls
pollTimerFires(w) ==
    /\ pc = "running"
    /\ task[w].step = "sleep"
    /\ UNCHANGED lastPoll
    /\ \E timedOut \in BOOLEAN :
         IF timedOut THEN settleSequential(w, Failure(w, ErrTimedOut), TRUE)
         ELSE /\ task[w].n < MaxPolls
              /\ suspend(w, "poll", task[w].n + 1, CallPoll(w))

\* backend responses and timers, for any workspace awaiting one
CreateWorkspaceResponds ==
    \E w \in Range(names) : createWorkspaceResponds(w)

AttachVariableSetResponds ==
    \E w \in Range(names) : attachVariableSetResponds(w)

CreateVariableResponds ==
    \E w \in Range(names) : createVariableResponds(w)

DeleteWorkspaceResponds ==
    \E w \in Range(names) : deleteWorkspaceResponds(w)

GetWorkspaceResponds ==
    \E w \in Range(names) : getWorkspaceResponds(w)

CreateRunResponds ==
    \E w \in Range(names) : createRunResponds(w)

PollResponds ==
    \E w \in Range(names) : pollResponds(w)

PollTimerFires ==
    \E w \in Range(names) : pollTimerFires(w)

Next ==
    \/ executeRejects
    \/ createWorkspaces
    \/ deleteWorkspaces
    \/ applyWorkspaces
    \/ destroyWorkspaces
    \/ CreateWorkspaceResponds
    \/ AttachVariableSetResponds
    \/ CreateVariableResponds
    \/ DeleteWorkspaceResponds
    \/ GetWorkspaceResponds
    \/ CreateRunResponds
    \/ PollResponds
    \/ PollTimerFires

Spec == Init /\ [][Next]_vars

\* largest configuration handed to execute under SpecLive, counted like
\* MaxSize
MaxLiveSize == 3

\* SpecLive: execute from its call on, where every backend request is
\* answered in the end, every timer fires and the synchronous steps of
\* execute are taken: a step that can be taken is taken
\* before execute is called: no configuration yet
InitLive ==
    /\ action = "create"
    /\ names = <<>>
    /\ dependsOn = <<>>
    /\ options = <<>>
    /\ vout = NotCalled
    /\ rout = NotCalled
    /\ IdleExecute
    /\ IdleWait
    /\ IdleRun

\* execute is called with a configuration
ExecuteCalled ==
    /\ pc = "idle"
    /\ IsConfiguration(action', names', dependsOn', options', MaxLiveSize)
    /\ pc' = "start"
    /\ task' = [w \in Range(names') |-> Idle]
    /\ calls' = [w \in Range(names') |-> {}]
    /\ UNCHANGED <<vout, rout, thrown, plan, cur, failed, results, lastPoll,
                   firstSettled, waitVars, runVars>>

NextLive ==
    \/ ExecuteCalled
    \/ Next

SpecLive == InitLive /\ [][NextLive]_vars /\ WF_vars(NextLive)

(***************************************************************************)
(* main.ts: run(), from the parsed configuration on, around execute.       *)
(***************************************************************************)
\* a configuration without action: '!config.action' holds for an absent
\* and for an empty action
NoAction == ""
\* an action that is none of the four
OtherAction == "plan"
validActions == {"create", "delete", "apply", "destroy"}

ErrNoAction ==
    "Configuration must specify an action (create, delete, apply, or destroy)"
ErrNoWorkspaces == "Configuration must specify at least one workspace"
ErrInvalidAction == "Invalid action"
ErrExecute == "Action failed"
ErrSomeFailed == "workspace(s) failed"

\* core.setFailed called from the catch of run with the message of error,
\* and called with the number of failed workspaces
FailedBy(message) == [kind |-> "error", count |-> 0, message |-> message]
FailedWorkspaces(n) ==
    [kind |-> "workspaces", count |-> n, message |-> ErrSomeFailed]

\* 'Validate configuration' without the test of validActions
configErrorAnyAction(act, ns) ==
    IF act = NoAction THEN ErrNoAction
    ELSE IF Len(ns) = 0 THEN ErrNoWorkspaces
    ELSE None

\* 'Validate configuration': the message of the Error thrown, None when
\* none is; ns are the keys of config.workspaces, none when it is absent
configError(act, ns) ==
    IF act = NoAction THEN ErrNoAction
    ELSE IF Len(ns) = 0 THEN ErrNoWorkspaces
    ELSE IF act \notin validActions THEN ErrInvalidAction
    ELSE None

\* run is called with a configuration execute accepts, or with one that has
\* no action or another action, with or without workspaces
InitRun ==
    /\ \/ ExecuteConfiguration
       \/ /\ action \in ActionTypes \cup {NoAction, OtherAction}
          /\ \E n \in 0..MaxWs :
               /\ names = Declared(n)
               /\ dependsOn = [w \in NameSet(n) |-> <<>>]
               /\ options = [w \in NameSet(n) |-> NoOptions]
          /\ action \notin ActionTypes \/ names = <<>>
    /\ vout = NotCalled
    /\ rout = NotCalled
    /\ pc = "idle"
    /\ thrown = NoError
    /\ plan = <<>>
    /\ cur = 0
    /\ task = [w \in Range(names) |-> Idle]
    /\ calls = [w \in Range(names) |-> {}]
    /\ failed = {}
    /\ results = <<>>
    /\ lastPoll = NoPoll
    /\ firstSettled = NoName
    /\ IdleWait
    /\ rpc = "start"
    /\ client = FALSE
    /\ setFailed = NotFailed
    /\ output = NoOutput

\* what run leaves alone when execute is not running
runFrame == <<action, names, dependsOn, options, vout, rout, thrown, plan,
             cur, task, calls, failed, results, lastPoll, firstSettled,
             waitVars>>

\* the validation throws: the catch of run calls setFailed and run ends
RunRejectsConfiguration ==
    /\ rpc = "start"
    /\ configError(action, names) # None
    /\ rpc' = "done"
    /\ setFailed' = FailedBy(configError(action, names))
    /\ UNCHANGED <<runFrame, pc, client, output>>

\* the configuration passes: run constructs the client and the manager and
\* calls execute
RunCallsExecute ==
    /\ rpc = "start"
    /\ configError(action, names) = None
    /\ client' = TRUE
    /\ rpc' = "executing"
    /\ pc' = "start"
    /\ UNCHANGED <<runFrame, setFailed, output>>

\* the successful and the failed results, 'results.filter(...)'
successful == SelectSeq(results, LAMBDA r : r.success)
failedResults == SelectSeq(results, LAMBDA r : ~r.success)

\* 'Process results' calling setFailed only when every result is a failure
setFailedUnlessSomeSucceeded ==
    IF Len(failedResults) > 0 /\ Len(successful) = 0
      THEN FailedWorkspaces(Len(failedResults))
      ELSE NotFailed

\* 'if (failed.length > 0) ... core.setFailed(...)'
setFailedIfAnyFailed ==
    IF Len(failedResults) > 0 THEN FailedWorkspaces(Len(failedResults))
    ELSE NotFailed

\* execute returned: run sets the outputs from the first successful
\* result, when it has a workspace id, and calls setFailed when a result
\* is a failure
RunProcessesResults ==
    /\ rpc = "executing"
    /\ pc = "returned"
    /\ output' = IF Len(successful) > 0 /\ successful[1].workspaceId # None
                   THEN [id |-> successful[1].workspaceId,
                         url |-> successful[1].workspaceUrl]
                   ELSE output
    /\ setFailed' = setFailedIfAnyFailed
    /\ rpc' = "done"
    /\ UNCHANGED <<runFrame, pc, client>>

\* execute threw: the catch of run calls setFailed with the message of the
\* Error
RunCatches ==
    /\ rpc = "executing"
    /\ pc = "threw"
    /\ setFailed' = FailedBy(ErrExecute)
    /\ rpc' = "done"
    /\ UNCHANGED <<runFrame, pc, client, output>>

NextRun ==
    \/ RunRejectsConfiguration
    \/ RunCallsExecute
    \/ Next
    \/ RunProcessesResults
    \/ RunCatches

SpecRun == InitRun /\ [][NextRun]_vars

(***************************************************************************)
(* tfe-client.ts: TFEClient.waitForRun on its own, against a clock.        *)
(***************************************************************************)
\* 'const pollInterval = 5000', in ms
pollInterval == 5000
\* the clock of the model advances in steps of half a poll interval
Tick == pollInterval \div 2
\* largest timeout argument, longest latency of a poll and longest delay of
\* the interval's timer beyond pollInterval, in ticks
MaxTimeoutTicks == 5
MaxLatencyTicks == 3
MaxLateTicks == 1
\* most milliseconds by which a reading of Date.now() is behind the clock
\* of the event loop: both count whole milliseconds, each from its own
\* origin, so that one may have ticked when the other has not. A timer is
\* due when the clock of the event loop has advanced by its delay, and by
\* Date.now() that can be up to MaxEarlyMs less
MaxEarlyMs == 1

Earliness == 0..MaxEarlyMs
\* the timeouts on the grid of ticks, and those just below a tick
Timeouts ==
    {k * Tick : k \in 0..MaxTimeoutTicks}
      \cup {k * Tick - e : k \in 1..MaxTimeoutTicks, e \in Earliness}
Latencies == {k * Tick : k \in 0..MaxLatencyTicks}
Lateness == {k * Tick : k \in 0..MaxLateTicks}
\* the time, by the clock of the event loop, between
\* 'setTimeout(resolve, pollInterval)' and the callback of the timer: the
\* timer is never run before its delay has passed on that clock
TimerDelays == {pollInterval + late : late \in Lateness}

\* how waitForRun ends: it returns the run it observed, or throws an Error
\* (status is the run status the message carries, if any)
Returned(status) ==
    [kind |-> "returned", status |-> status, error |-> None,
     run |-> None, seconds |-> <<>>]
Threw(message, status) ==
    [kind |-> "threw", status |-> status, error |-> message,
     run |-> None, seconds |-> <<>>]

\* the run waitForRun is called for
WaitedRun == RunId[names[1]]

\* 'ms / 1000' as it prints: the whole seconds and the thousandths after the
\* decimal point
Seconds(ms) == <<ms \div 1000, ms % 1000>>

\* the timeout error reporting the time that elapsed since the wait began
TimedOutAfterElapsed(runId, t, start, limit) ==
    [kind |-> "threw", status |-> None, error |-> ErrTimedOut,
     run |-> runId, seconds |-> Seconds(t - start)]

\* 'Run ${runId} timed out after ${timeout / 1000} seconds', thrown at time
\* t by a wait that began at start with the timeout limit
TimedOut(runId, t, start, limit) ==
    [kind |-> "threw", status |-> None, error |-> ErrTimedOut,
     run |-> runId, seconds |-> Seconds(limit)]

\* the deadline check with two poll intervals of grace
deadlinePassedLate(t, start, limit) == t - start > limit + 2 * pollInterval

\* 'Date.now() - startTime > timeout'
deadlinePassed(t, start, limit) == t - start > limit

\* waitForRun throwing for every terminal status but applied
waitForRunOnStatusThrowsUnlessApplied(status) ==
    IF status \in terminalStates
      THEN IF status # "applied" THEN Threw(ErrRunFailed, status)
           ELSE Returned(status)
      ELSE NoOutcome

\* what waitForRun does with the status a poll observed: NoOutcome when it
\* goes on to sleep
waitForRunOnStatus(status) ==
    IF status \in terminalStates
      THEN IF status = "errored" THEN Threw(ErrRunFailed, status)
           ELSE Returned(status)
      ELSE NoOutcome

\* execute is not running: nothing of it changes
executeVars == <<action, names, dependsOn, options, vout, rout,
                 pc, thrown, plan, cur, task, calls, failed, results,
                 lastPoll, firstSettled>>

InitWait ==
    /\ action = "apply"
    /\ names = Declared(1)
    /\ dependsOn = [w \in NameSet(1) |-> <<>>]
    /\ options = [w \in NameSet(1) |-> NoOptions]
    /\ vout = NotCalled
    /\ rout = NotCalled
    /\ IdleExecute
    /\ wpc = "called"
    /\ clock = 0
    /\ loopNow \in Earliness
    /\ startTime = 0
    /\ timeout \in Timeouts
    /\ polled = 0
    /\ observed = {}
    /\ wret = NoOutcome
    /\ IdleRun

\* the top of the loop at time t of a wait that began at start: throw when
\* the deadline has passed, else issue a poll
waitForRunLoop(start, t) ==
    IF deadlinePassed(t, start, timeout)
      THEN /\ wpc' = "threw"
           /\ wret' = TimedOut(WaitedRun, t, start, timeout)
           /\ UNCHANGED polled
      ELSE /\ wpc' = "polling"
           /\ polled' = polled + 1
           /\ UNCHANGED wret

\* ms milliseconds pass on the clock of the event loop and Date.now() is
\* read: the reading is behind that clock by MaxEarlyMs at most and is not
\* before the previous reading
elapse(ms) ==
    /\ loopNow' = loopNow + ms
    /\ \E behind \in Earliness :
         /\ behind <= loopNow + ms
         /\ clock' = loopNow + ms - behind
         /\ clock' >= clock

\* waitForRun is called and runs up to its first await: it reads the clock
\* for startTime and reads it again, possibly later, for the first deadline
\* check
WaitForRunCalled ==
    /\ wpc = "called"
    /\ startTime' = clock
    /\ \E late \in Lateness :
         /\ elapse(late)
         /\ waitForRunLoop(clock, clock')
    /\ UNCHANGED <<executeVars, runVars, timeout, observed>>

\* a failed poll that is taken for a non-terminal status: the loop sleeps
\* and polls again
onPollFailureRetrying(failure) ==
    /\ wpc' = "sleeping"
    /\ UNCHANGED wret

\* a poll failed: the error thrown in the try block goes through the catch
\* and out of waitForRun
onPollFailure(failure) ==
    /\ wpc' = "threw"
    /\ wret' = Threw(pollError(failure), None)

\* waitForRun checking the deadline also when a response arrives: a
\* response that comes after the deadline is dropped for the timeout error
WaitPollRespondsCheckingDeadline ==
    /\ wpc = "polling"
    /\ \E latency \in Latencies :
         /\ elapse(latency)
         /\ \E answer \in PollFailures \cup RunStatus :
              /\ observed' = observed \cup {answer}
              /\ IF deadlinePassed(clock', startTime, timeout)
                   THEN /\ wpc' = "threw"
                        /\ wret' = TimedOut(WaitedRun, clock', startTime,
                                            timeout)
                 ELSE IF answer \in PollFailures
                   THEN onPollFailure(answer)
                 ELSE IF waitForRunOnStatus(answer) = NoOutcome
                   THEN /\ wpc' = "sleeping"
                        /\ UNCHANGED wret
                 ELSE /\ wpc' = waitForRunOnStatus(answer).kind
                      /\ wret' = waitForRunOnStatus(answer)
    /\ UNCHANGED <<executeVars, runVars, startTime, timeout, polled>>

\* the response to a poll arrives after some latency
WaitPollResponds ==
    /\ wpc = "polling"
    /\ \E latency \in Latencies :
         elapse(latency)
    /\ \E answer \in PollFailures \cup RunStatus :
         /\ observed' = observed \cup {answer}
         /\ IF answer \in PollFailures
              THEN onPollFailure(answer)
            ELSE IF waitForRunOnStatus(answer) = NoOutcome
              THEN /\ wpc' = "sleeping"
                   /\ UNCHANGED wret
            ELSE /\ wpc' = waitForRunOnStatus(answer).kind
                 /\ wret' = waitForRunOnStatus(answer)
    /\ UNCHANGED <<executeVars, runVars, startTime, timeout, polled>>

\* the loop going round without sleeping: the next poll is issued as soon
\* as the response is handled
WaitTimerFiresAtOnce ==
    /\ wpc = "sleeping"
    /\ \E late \in Lateness :
         /\ elapse(late)
         /\ waitForRunLoop(startTime, clock')
    /\ UNCHANGED <<executeVars, runVars, startTime, timeout, observed>>

\* the timer of the poll interval fires, pollInterval after it was set or
\* later by the clock of the event loop, and the loop goes round and reads
\* Date.now()
WaitTimerFires ==
    /\ wpc = "sleeping"
    /\ \E delay \in TimerDelays :
         /\ elapse(delay)
         /\ waitForRunLoop(startTime, clock')
    /\ UNCHANGED <<executeVars, runVars, startTime, timeout, observed>>

NextWait ==
    \/ WaitForRunCalled
    \/ WaitPollResponds
    \/ WaitTimerFires

SpecWait == InitWait /\ [][NextWait]_vars

(***************************************************************************)
(* Vocabulary of the claims about the resolver.                            *)
(***************************************************************************)
Index(s, x) == CHOOSE i \in 1..Len(s) : s[i] = x

IsPermutation(s, t) ==
    /\ Len(s) = Len(t)
    /\ Range(s) = Range(t)
    /\ \A i, j \in 1..Len(s) : s[i] = s[j] => i = j

\* every dependsOn entry names a declared workspace
AllDeclared == \A w \in Range(names) : Range(dependsOn[w]) \subseteq Range(names)

\* some dependsOn entry names a workspace that is not declared
HasUnknown == ~AllDeclared

\* some workspace lists its own name
HasSelf == \E w \in Range(names) : w \in Range(dependsOn[w])

\* the declared workspaces reachable from the set S in at most k more steps
\* along dependsOn (self entries skipped when skipSelf)
RECURSIVE ReachFrom(_, _, _)
StepFrom(S, skipSelf) ==
    UNION {(Range(dependsOn[x]) \cap Range(names))
             \ (IF skipSelf THEN {x} ELSE {}) : x \in S}
ReachFrom(S, k, skipSelf) ==
    LET T == StepFrom(S, skipSelf)
    IN  IF k = 0 \/ T \subseteq S THEN S
        ELSE ReachFrom(S \cup T, k - 1, skipSelf)

OnCycle(w, skipSelf) ==
    w \in ReachFrom(StepFrom({w}, skipSelf), Len(names), skipSelf)

\* the dependency relation has no cycle (a self-dependency is a cycle)
Acyclic == \A w \in Range(names) : ~OnCycle(w, FALSE)

\* the dependency relation has no cycle of length two or more
AcyclicButSelf == \A w \in Range(names) : ~OnCycle(w, TRUE)

\* the declared workspace x comes before the declared workspace y when the
\* properties of the parsed configuration are enumerated: an integer-like
\* name before any other name, two integer-like names by their numeric
\* values, two other names as they are declared
EnumeratedBefore(x, y) ==
    IF x \in IndexKeys /\ y \in IndexKeys
      THEN IndexValue(x) < IndexValue(y)
    ELSE IF x \in IndexKeys \/ y \in IndexKeys THEN x \in IndexKeys
    ELSE Index(names, x) < Index(names, y)

\* e lists the keys of k with the index keys first, in ascending numeric
\* order, and the other keys after them in the order they have in k
IsEntriesOrder(k, e) ==
    /\ IsPermutation(e, k)
    /\ \A i, j \in 1..Len(e) :
         i < j =>
           /\ e[j] \in IndexKeys => e[i] \in IndexKeys
           /\ (e[i] \in IndexKeys /\ e[j] \in IndexKeys) =>
                IndexValue(e[i]) < IndexValue(e[j])
           /\ (e[i] \notin IndexKeys /\ e[j] \notin IndexKeys) =>
                Index(k, e[i]) < Index(k, e[j])

\* the declared names in the order in which they are enumerated
Enumerated ==
    CHOOSE e \in Declarations(Len(names),
                              Cardinality(Range(names) \cap IndexKeys)) :
        IsEntriesOrder(names, e)

\* the dependsOn entries <<w, j>>: the j-th entry of workspace w
Entries ==
    UNION {{<<w, j>> : j \in 1..Len(dependsOn[w])} : w \in Range(names)}
EntryDep(e) == dependsOn[e[1]][e[2]]
\* the entry e is read before the entry f by a scan that takes the
\* workspaces as they are enumerated and each dependsOn from its first entry
Before(e, f) ==
    IF e[1] = f[1] THEN e[2] < f[2] ELSE EnumeratedBefore(e[1], f[1])
UnknownEntries == {e \in Entries : EntryDep(e) \notin Range(names)}
SelfEntries == {e \in Entries : EntryDep(e) = e[1]}
\* the first entry such a scan finds defective
FirstDefect ==
    CHOOSE e \in UnknownEntries \cup SelfEntries :
        \A f \in (UnknownEntries \cup SelfEntries) \ {e} : Before(e, f)

(***************************************************************************)
(* Claims about the resolver, checked under SpecResolver.                  *)
(***************************************************************************)

\* C1: for action apply, an acyclic configuration whose dependencies are all
\* declared resolves without error to a permutation of the declared names in
\* which every workspace comes after each workspace of its dependsOn.
C1_ApplyOrderIsTopological ==
    (action = "apply" /\ rout.called /\ AllDeclared /\ Acyclic) =>
        /\ rout.err.kind = "none"
        /\ IsPermutation(rout.order, names)
        /\ \A w \in Range(names) : \A d \in Range(dependsOn[w]) :
             Index(rout.order, d) < Index(rout.order, w)

\* C1 witness: an apply resolution that had to reorder: a workspace with two
\* dependencies, one of them declared after it.
C1_Witness ==
    /\ action = "apply" /\ rout.called /\ AllDeclared /\ Acyclic
    /\ rout.err.kind = "none"
    /\ rout.order # names
    /\ \E w \in Range(names) : Cardinality(Range(dependsOn[w])) = 2

\* C6 (as claimed): for apply and destroy, a configuration with a cycle and
\* only declared names fails resolution with a circular-dependency error
\* whose reported path starts and ends at the same workspace.
C6_CyclePathIsClosed ==
    (action \in {"apply", "destroy"} /\ rout.called /\ AllDeclared
       /\ ~Acyclic) =>
        /\ rout.err.kind = "cycle"
        /\ Len(rout.err.path) >= 2
        /\ rout.err.path[1] = rout.err.path[Len(rout.err.path)]

\* C7 (as claimed): for every action, a configuration with an undeclared
\* dependency fails validateDependencies with the error that names the
\* dependent workspace and the missing dependency.
C7_UnknownAlwaysNamed ==
    (vout.called /\ HasUnknown) =>
        /\ vout.err.kind = "unknown"
        /\ vout.err.ws \in Range(names)
        /\ vout.err.dep \in Range(dependsOn[vout.err.ws]) \ Range(names)

\* C7 (amended): for every action, a configuration with an undeclared
\* dependency fails validateDependencies before any resolution is tried,
\* with the error of the first defective dependsOn entry, where the
\* workspaces are taken in the order of Object.entries (integer-like names
\* first, in ascending numeric order, then the other names as declared) and
\* the entries of a workspace in the order of its dependsOn: when that entry
\* names an undeclared workspace the error is the unknown-dependency error
\* naming that dependent workspace and that missing dependency, and when it
\* is a self-dependency the error is that workspace's self-dependency error.
C7_UnknownNamedUnlessSelfFirst ==
    (vout.called /\ HasUnknown) =>
        vout.err = IF FirstDefect \in UnknownEntries
                     THEN UnknownError(FirstDefect[1], EntryDep(FirstDefect))
                     ELSE SelfError(FirstDefect[1])

\* C7 witness: validation of a create configuration (no resolution is tried
\* for it) that declares a, which lists itself, and then 10, which lists
\* the undeclared name, reported the undeclared dependency of 10, the
\* workspace enumerated first.
C7_Witness ==
    /\ vout.called /\ action = "create"
    /\ names = <<"a", "10">>
    /\ dependsOn["a"] = <<"a">>
    /\ dependsOn["10"] = <<Undeclared>>
    /\ vout.err = UnknownError("10", Undeclared)

\* C8: for every action, a configuration with a self-dependency fails
\* validateDependencies; when it has no other defect (no undeclared
\* dependency, no longer cycle) the error is the self-dependency error of a
\* workspace that lists itself.
C8_SelfDependencyRejected ==
    (vout.called /\ HasSelf) =>
        /\ vout.err.kind # "none"
        /\ (AllDeclared /\ AcyclicButSelf) =>
             /\ vout.err.kind = "self"
             /\ ~vout.err.wrapped
             /\ vout.err.ws \in Range(dependsOn[vout.err.ws])

\* C8 witness: an apply configuration whose only defect is a self-dependency
\* was rejected with the self-dependency error.
C8_Witness ==
    /\ vout.called /\ action = "apply" /\ HasSelf /\ AllDeclared
    /\ AcyclicButSelf
    /\ vout.err.kind = "self"

\* C9: for an acyclic configuration with only declared dependencies, the
\* destroy plan is the apply plan of the same workspaces read backwards.
C9_DestroyIsApplyReversed ==
    (action = "destroy" /\ rout.called /\ AllDeclared /\ Acyclic) =>
        LET forward == resolveExecutionOrder("apply", names, dependsOn)
            n == Len(names)
        IN  /\ rout.err.kind = "none"
            /\ forward.err.kind = "none"
            /\ Len(rout.order) = n
            /\ Len(forward.order) = n
            /\ \A i \in 1..n : rout.order[i] = forward.order[n + 1 - i]

\* C9 witness: a destroy plan of three workspaces with dependencies.
C9_Witness ==
    /\ action = "destroy" /\ rout.called /\ AllDeclared /\ Acyclic
    /\ rout.err.kind = "none"
    /\ Len(rout.order) = 3
    /\ \E w \in Range(names) : dependsOn[w] # <<>>

\* C10 (as claimed): in the destroy plan of an acyclic configuration every
\* workspace comes before all of its dependents.
C10_DestroyBeforeDependents ==
    (action = "destroy" /\ rout.called /\ AllDeclared /\ Acyclic) =>
        /\ rout.err.kind = "none"
        /\ \A w \in Range(names) : \A d \in Range(dependsOn[w]) :
             Index(rout.order, d) < Index(rout.order, w)

\* C10 (amended): in the destroy plan of an acyclic configuration every
\* workspace comes after all of its dependents, that is, before every
\* workspace of its own dependsOn.
C10_DestroyAfterDependents ==
    (action = "destroy" /\ rout.called /\ AllDeclared /\ Acyclic) =>
        /\ rout.err.kind = "none"
        /\ IsPermutation(rout.order, names)
        /\ \A w \in Range(names) : \A d \in Range(dependsOn[w]) :
             Index(rout.order, w) < Index(rout.order, d)

\* C10 witness: a destroy plan in which a dependent precedes the workspace
\* it depends on, the two being declared the other way round.
C10_Witness ==
    /\ action = "destroy" /\ rout.called /\ AllDeclared /\ Acyclic
    /\ rout.err.kind = "none"
    /\ \E i, j \in 1..Len(names) :
         /\ i < j
         /\ names[i] \in Range(dependsOn[names[j]])
         /\ Index(rout.order, names[j]) < Index(rout.order, names[i])

(***************************************************************************)
(* Claims about WorkspaceManager.execute, checked under Spec.              *)
(***************************************************************************)
\* the workspace has been attempted: a request was issued for it
Attempted(w) == calls[w] # {}

\* the plan positions after position i
After(i) == {j \in 1..Len(plan) : j > i}

\* C2: apply aborts on the first failure. At every moment the results are
\* those of a prefix of the plan, in plan order; only the last result can be
\* a failure; once a result is a failure no request has been, or is ever,
\* issued for a workspace later in the plan, and execute has returned; when
\* execute returns without a failure every workspace has its result.
C2_ApplyAbortsOnFirstFailure ==
    action = "apply" =>
        /\ Len(results) <= Len(plan)
        /\ \A i \in 1..Len(results) :
             /\ results[i].workspace = plan[i]
             /\ results[i].success <=> plan[i] \notin failed
             /\ i < Len(results) => results[i].success
             /\ ~results[i].success =>
                  /\ pc = "returned"
                  /\ \A j \in After(i) : ~Attempted(plan[j])
        /\ (pc = "returned" /\ \A i \in 1..Len(results) : results[i].success)
             => Len(results) = Len(plan)

\* C2 witness: an apply of three workspaces returned [success, failure]
\* after the second workspace's run errored; the third was never requested.
C2_Witness ==
    /\ action = "apply" /\ pc = "returned"
    /\ Len(plan) = 3 /\ Len(results) = 2
    /\ results[1].success
    /\ ~results[2].success /\ results[2].error = ErrRunFailed
    /\ ~Attempted(plan[3])

\* C3: destroy continues past failures. The results are those of a prefix
\* of the plan in plan order, a workspace the backend let down has
\* success=false and every other one success=true, the workspace after a
\* failed one is attempted all the same, and when execute returns every
\* workspace of the plan has been attempted and has exactly one result.
C3_DestroyContinuesPastFailures ==
    action = "destroy" =>
        /\ Len(results) <= Len(plan)
        /\ \A i \in 1..Len(results) :
             /\ results[i].workspace = plan[i]
             /\ Attempted(plan[i])
             /\ results[i].success <=> plan[i] \notin failed
             /\ i < Len(plan) => Attempted(plan[i + 1])
        /\ pc = "returned" => Len(results) = Len(plan)
        /\ pc = "running" => Len(results) < Len(plan)

\* C3 witness: a destroy of three workspaces returned
\* [success, failure, success].
C3_Witness ==
    /\ action = "destroy" /\ pc = "returned"
    /\ Len(results) = 3
    /\ results[1].success /\ ~results[2].success /\ results[3].success
    /\ failed = {plan[2]}

\* every attempt of a parallel strategy has resolved
AllSettled ==
    /\ pc # "start"
    /\ \A w \in Range(names) : task[w].step = "done"

\* C4: create and delete isolate failures. Once every attempt has resolved,
\* execute has returned one result per configured workspace, and the result
\* of a workspace has success=false exactly when a request of that workspace
\* failed, whatever the order in which the responses arrived.
C4_ParallelFailuresIsolated ==
    (action \in {"create", "delete"} /\ (AllSettled \/ pc = "returned")) =>
        /\ pc = "returned"
        /\ AllSettled
        /\ Len(results) = Len(names)
        /\ \A w \in Range(names) :
             \E i \in 1..Len(results) :
               /\ results[i].workspace = w
               /\ results[i].success <=> w \notin failed
               /\ \A j \in 1..Len(results) :
                    results[j].workspace = w => j = i

\* C4 witness: a create of three workspaces returned with exactly the
\* second one failed, at its variable-set step, after its workspace had been
\* created.
C4_Witness ==
    /\ action = "create" /\ pc = "returned"
    /\ Len(results) = 3
    /\ failed = {names[2]}
    /\ results[2].error = ErrAttach
    /\ results[1].success /\ results[3].success

\* the configuration fails dependency validation
Defective ==
    \/ HasSelf
    \/ HasUnknown
    \/ (action \in {"apply", "destroy"} /\ ~Acyclic)

\* C5: a configuration that fails dependency validation never gets a backend
\* request: no request is issued for any workspace, no result is produced,
\* and execute ends by throwing the validation error.
C5_ValidationFailureIssuesNothing ==
    Defective =>
        /\ \A w \in Range(names) : ~Attempted(w) /\ task[w].step = "idle"
        /\ results = <<>>
        /\ pc \in {"start", "threw"}
        /\ pc = "threw" =>
             /\ thrown = validateDependencies(action, names, dependsOn)
             /\ thrown.kind \in {"self", "unknown", "cycle"}
             /\ thrown.kind = "cycle" <=> thrown.wrapped

\* C5 witness: an apply of two workspaces that depend on each other threw
\* the wrapped circular-dependency error.
C5_Witness ==
    /\ action = "apply" /\ pc = "threw"
    /\ Len(names) = 2
    /\ thrown.kind = "cycle" /\ thrown.wrapped
    /\ ~HasSelf /\ ~HasUnknown

\* the statuses with which waitForRun returns the run although nothing was
\* applied or destroyed
UnfinishedStatuses == {"canceled", "force_canceled", "discarded"}

\* C11 (as claimed): when the run created for a workspace during apply or
\* destroy ends canceled, force_canceled or discarded, the result of that
\* workspace does not have success=true.
C11_CanceledRunIsNotSuccess ==
    action \in {"apply", "destroy"} =>
        \A i \in 1..Len(results) :
            (/\ lastPoll.workspace = results[i].workspace
             /\ lastPoll.status \in UnfinishedStatuses)
                => ~results[i].success

(***************************************************************************)
(* Claims about waitForRun, checked under SpecWait.                        *)
(***************************************************************************)
\* the smallest natural number that is at least a / b
Ceil(a, b) == (a + b - 1) \div b

\* waitForRun has returned or thrown
WaitOver == wpc \in {"returned", "threw"}

\* C12: when a poll observes canceled, force_canceled or discarded,
\* waitForRun returns, without throwing, the run carrying exactly that
\* status, which is not the status applied.
C12_UnfinishedRunIsReturned ==
    \A s \in UnfinishedStatuses :
        s \in observed =>
            /\ wpc = "returned"
            /\ wret = Returned(s)
            /\ wret.status # "applied"

\* C12 witness: waitForRun returned a force_canceled run that an earlier
\* poll had seen in a non-terminal status.
C12_Witness ==
    /\ observed = {Planning, "force_canceled"}
    /\ polled = 2
    /\ wret = Returned("force_canceled")

\* C13: while every poll observes a non-terminal status, waitForRun issues
\* at most ceil(timeout / pollInterval) + 1 polls, never returns, and ends
\* only by throwing the timeout error, whatever the timeout, the latencies
\* of the polls and the lateness of the timer. The bound rests on two facts
\* that do not depend on the timeout: when k polls have been issued the
\* clock reads at least (k - 1) poll intervals less MaxEarlyMs after
\* startTime (the milliseconds by which readings run behind the timers do
\* not add up from one timer to the next), and the k-th poll was issued at
\* a reading within the timeout, so that (k - 1) poll intervals are at most
\* the timeout plus MaxEarlyMs.
C13_TimeoutWithinPollBound ==
    /\ observed \subseteq {Planning} =>
          /\ polled <= Ceil(timeout, pollInterval) + 1
          /\ wpc # "returned"
          /\ wpc = "threw" => wret.error = ErrTimedOut
    /\ polled >= 1 =>
          clock + MaxEarlyMs >= startTime + (polled - 1) * pollInterval
    /\ polled >= 1 =>
          (polled - 1) * pollInterval <= timeout + MaxEarlyMs

\* C13 witness: with a timeout of two poll intervals, waitForRun timed out
\* after exactly ceil(timeout / pollInterval) + 1 = 3 polls, all of them
\* non-terminal.
C13_Witness ==
    /\ timeout = 2 * pollInterval
    /\ observed = {Planning}
    /\ polled = Ceil(timeout, pollInterval) + 1
    /\ wpc = "threw"
    /\ wret.error = ErrTimedOut

\* C14: once a poll has observed a terminal status waitForRun is over and
\* no step issues another poll; it has returned the run when the status is
\* applied and thrown the run-failed error carrying the status when it is
\* errored.
C14_NoPollAfterTerminal ==
    /\ [](\A s \in {"applied", "errored", "canceled", "force_canceled",
                    "discarded"} :
            s \in observed =>
                /\ WaitOver
                /\ s = "applied" => wret = Returned("applied")
                /\ s = "errored" =>
                     wret = Threw(ErrRunFailed, "errored"))
    /\ [][(observed \cap {"applied", "errored", "canceled", "force_canceled",
                          "discarded"} # {})
            => (polled' = polled /\ wpc' = wpc)]_vars

\* C14 witness: the second poll observed applied and waitForRun returned
\* the run after those two polls.
C14_Witness ==
    /\ observed = {Planning, "applied"}
    /\ polled = 2
    /\ wpc = "returned"
    /\ wret = Returned("applied")

(***************************************************************************)
(* Further claims about execute, checked under Spec.                       *)
(***************************************************************************)
\* the messages of the errors a backend request, a run or the deadline of
\* waitForRun raises
BackendErrors ==
    {ErrCreateWorkspace, ErrAttach, ErrCreateVariable, ErrDelete,
     ErrGetWorkspace, ErrCreateRun, ErrRunFailed, ErrTimedOut}
      \cup PollErrors

\* C15: execute throws only configuration errors, and only before any
\* backend request; once a request has been issued execute is running or
\* has returned its result list, and a workspace the backend let down (a
\* failed request, an errored run, a missed deadline) shows only as a
\* success=false result carrying the error's message, which the returned
\* list contains.
C15_OnlyConfigurationErrorsEscape ==
    /\ pc = "threw" =>
         /\ thrown.kind \in {"self", "unknown", "cycle"}
         /\ \A w \in Range(names) : ~Attempted(w)
         /\ failed = {}
    /\ (\E w \in Range(names) : Attempted(w)) =>
         /\ pc \in {"running", "returned"}
         /\ thrown = NoError
    /\ \A i \in 1..Len(results) :
         results[i].workspace \in failed =>
             /\ ~results[i].success
             /\ results[i].error \in BackendErrors
    /\ pc = "returned" =>
         \A w \in failed : \E i \in 1..Len(results) : results[i].workspace = w

\* C15 witness: an apply returned [success, failure], the second workspace
\* having run into the deadline of waitForRun.
C15_Witness ==
    /\ action = "apply" /\ pc = "returned"
    /\ Len(results) = 2
    /\ results[1].success
    /\ ~results[2].success /\ results[2].error = ErrTimedOut
    /\ thrown = NoError

\* C16: for create and delete the returned list is in dispatch order: its
\* i-th entry is the result that the attempt of the i-th workspace of the
\* plan resolved with, whichever attempt resolved first.
C16_ParallelResultsInDispatchOrder ==
    (action \in {"create", "delete"} /\ pc = "returned") =>
        /\ Len(results) = Len(plan)
        /\ \A i \in 1..Len(results) :
             /\ results[i].workspace = plan[i]
             /\ results[i] = task[plan[i]].result

\* C16 witness: a create of three workspaces returned after the attempt of
\* the last workspace of the plan had resolved first, the first workspace
\* having failed.
C16_Witness ==
    /\ action = "create" /\ pc = "returned"
    /\ Len(plan) = 3
    /\ firstSettled = plan[3]
    /\ ~results[1].success /\ results[3].success
    /\ results[3].workspace = plan[3]

\* the attempt of w has started and has not resolved yet
InProgress(w) == task[w].step \notin {"idle", "done"}

\* C17: during apply and destroy at most one workspace has an attempt in
\* progress, and a workspace of the plan has a backend request issued only
\* when the attempt of every workspace before it, its wait for the run
\* included, has resolved and its result has been pushed.
C17_SequentialOneAtATime ==
    action \in {"apply", "destroy"} =>
        /\ Cardinality({w \in Range(names) : InProgress(w)}) <= 1
        /\ \A i \in 1..Len(plan) :
             Attempted(plan[i]) =>
                 \A j \in 1..(i - 1) :
                     /\ task[plan[j]].step = "done"
                     /\ j <= Len(results)
                     /\ results[j].workspace = plan[j]

\* C17 witness: in a destroy of three workspaces the second one sleeps
\* between two polls of its run, the first one has its result (a failure),
\* and nothing has been requested for the third one.
C17_Witness ==
    /\ action = "destroy" /\ pc = "running"
    /\ Len(plan) = 3
    /\ task[plan[2]].step = "sleep"
    /\ Len(results) = 1 /\ ~results[1].success
    /\ task[plan[3]].step = "idle" /\ ~Attempted(plan[3])

\* the requests the task of w issues when none of them fails
TaskCalls(w) ==
    IF action = "create"
      THEN {CallCreateWorkspace(w)}
           \cup (IF options[w].varset # None
                   THEN {CallAttachVariableSet(w)} ELSE {})
           \cup {CallCreateVariable(w, i) : i \in 1..options[w].variables}
      ELSE {CallDeleteWorkspace(w)}

\* the first request of the task of w
FirstCall(w) ==
    IF action = "create" THEN CallCreateWorkspace(w)
                         ELSE CallDeleteWorkspace(w)

\* C18: during create and delete, as soon as execute awaits anything the
\* first request of every workspace of the plan has been issued; execute
\* has returned only when every task has resolved; and a task none of whose
\* requests failed has issued every one of its requests and resolved with
\* success, whatever happened to the other tasks.
C18_ParallelLaunchAndJoin ==
    (action \in {"create", "delete"} /\ pc \in {"running", "returned"}) =>
        /\ Range(plan) = Range(names)
        /\ \A w \in Range(plan) :
             /\ FirstCall(w) \in calls[w]
             /\ task[w].step # "idle"
             /\ calls[w] \subseteq TaskCalls(w)
             /\ (task[w].step = "done" /\ w \notin failed) =>
                  /\ calls[w] = TaskCalls(w)
                  /\ task[w].result.success
        /\ pc = "returned" <=> \A w \in Range(plan) : task[w].step = "done"

\* C18 witness: in a create of two workspaces the first task has failed at
\* its first request and resolved, while the second task, with a variable
\* set and a variable to create, has gone on to its last request.
C18_Witness ==
    /\ action = "create" /\ pc = "running"
    /\ Len(plan) = 2
    /\ task[plan[1]].step = "done" /\ plan[1] \in failed
    /\ task[plan[2]].step = "createVariable"
    /\ options[plan[2]].varset # None
    /\ calls[plan[2]] = TaskCalls(plan[2])

\* the remote entities a request changes: the one its URL addresses and,
\* for attachVariableSet, the workspace its payload names
Touched(c) ==
    {c.target} \cup (IF c.kind = "attachVariableSet" THEN {c.arg} ELSE {})

\* the remote workspace of w, by name and by id
OwnEntities(w) == {w, WsId[w]}

\* C19 (as claimed): in the parallel strategies no remote entity is changed
\* by the requests of two tasks, and every request of a workspace's task
\* changes only that workspace's own remote entity, also when several
\* workspaces configure the same variable-set-id.
C19_TasksTouchOnlyOwnWorkspace ==
    action \in {"create", "delete"} =>
        \A w \in Range(names) : \A c \in calls[w] :
            /\ \A x \in Range(names) \ {w} : \A d \in calls[x] :
                 Touched(c) \cap Touched(d) = {}
            /\ Touched(c) \subseteq OwnEntities(w)

\* C19 (amended): in the parallel strategies a request of a workspace's
\* task changes that workspace's own remote entity and no other workspace;
\* the only other entity it changes is the variable set the workspace
\* configures, through attachVariableSet with the workspace's own id, and
\* a variable set is the only entity the requests of two tasks both change.
C19_TasksShareOnlyVariableSets ==
    action \in {"create", "delete"} =>
        \A w \in Range(names) : \A c \in calls[w] :
            /\ Touched(c) \ {VarSetId} \subseteq OwnEntities(w)
            /\ Touched(c) \ {VarSetId} # {}
            /\ VarSetId \in Touched(c) =>
                 /\ c.kind = "attachVariableSet"
                 /\ c.arg = WsId[w]
                 /\ options[w].varset = VarSetId
            /\ \A x \in Range(names) \ {w} : \A d \in calls[x] :
                 Touched(c) \cap Touched(d) \subseteq {VarSetId}

\* C19 witness: two workspaces configure the same variable-set-id and the
\* attachVariableSet requests of both tasks are in flight at the same time.
C19_Witness ==
    /\ action = "create" /\ pc = "running"
    /\ task[names[1]].step = "attachVariableSet"
    /\ Len(names) >= 2
    /\ task[names[2]].step = "attachVariableSet"
    /\ options[names[1]].varset = options[names[2]].varset
    /\ CallAttachVariableSet(names[1]).target
         = CallAttachVariableSet(names[2]).target

\* the dependencies form a cycle of length two or more, every name is
\* declared and no workspace depends on itself
CyclicOnly == AllDeclared /\ ~HasSelf /\ ~AcyclicButSelf

\* C20: cycle detection is for apply and destroy only. For create and
\* delete a configuration whose only defect is a cycle of length two or
\* more passes validation, execute does not throw, the plan is a
\* permutation of the declared names, every workspace is attempted, and
\* the returned list has exactly one result for every workspace.
C20_CycleIgnoredForCreateDelete ==
    (action \in {"create", "delete"} /\ CyclicOnly) =>
        /\ validateDependencies(action, names, dependsOn) = NoError
        /\ pc # "threw"
        /\ pc # "start" =>
             /\ IsPermutation(plan, names)
             /\ \A w \in Range(names) :
                  /\ Attempted(w)
                  /\ FirstCall(w) \in calls[w]
        /\ pc = "returned" =>
             /\ Len(results) = Len(names)
             /\ \A w \in Range(names) :
                  Cardinality({i \in 1..Len(results) :
                                 results[i].workspace = w}) = 1

\* C20 witness: a create of two workspaces that depend on each other
\* returned two successes.
C20_Witness ==
    /\ action = "create" /\ pc = "returned"
    /\ CyclicOnly
    /\ Len(names) = 2
    /\ \A i \in 1..2 : results[i].success

(***************************************************************************)
(* Claims about the steps of an attempt, checked under Spec.               *)
(***************************************************************************)
\* the requests of the create task of w when its variables are created in
\* the order keys: createWorkspace, attachVariableSet when a variable-set-id
\* is configured, then one createVariable per key
CreateSteps(w, keys) ==
    <<CallCreateWorkspace(w)>>
      \o (IF options[w].varset # None
            THEN <<CallAttachVariableSet(w)>> ELSE <<>>)
      \o [i \in 1..Len(keys) |-> Call("createVariable", WsId[w], keys[i])]

\* the requests issued for w are the first m of steps, the task awaits the
\* m-th of them unless it has resolved, it has resolved with success=false
\* when one of them failed, and with all of them issued otherwise
FollowsSteps(w, steps) ==
    \E m \in 1..Len(steps) :
        /\ calls[w] = {steps[k] : k \in 1..m}
        /\ task[w].step # "done" => task[w].step = steps[m].kind
        /\ w \in failed =>
             /\ task[w].step = "done"
             /\ ~task[w].result.success
        /\ (task[w].step = "done" /\ w \notin failed) =>
             /\ m = Len(steps)
             /\ task[w].result.success

\* C21 (as claimed): in create the requests of a workspace are issued in
\* the order createWorkspace, attachVariableSet (only when a variable-set-id
\* is configured), then the variables one at a time in configured order; a
\* failed request is the last one issued for the workspace, whose result
\* then has success=false.
C21_CreateStepsInConfiguredOrder ==
    (action = "create" /\ pc \in {"running", "returned"}) =>
        \A w \in Range(names) :
            FollowsSteps(w, CreateSteps(w,
                            configuredKeys(options[w].variables)))

\* C21 (amended): in create the requests of a workspace are issued in the
\* order createWorkspace, attachVariableSet (only when a variable-set-id is
\* configured), then the variables one at a time in the order of
\* Object.entries: keys that are array indices first, in ascending numeric
\* order, then the other keys in configured order. A failed request is the
\* last one issued for the workspace, whose result then has success=false.
C21_CreateStepsInEntriesOrder ==
    (action = "create" /\ pc \in {"running", "returned"}) =>
        \A w \in Range(names) :
            LET k == configuredKeys(options[w].variables)
            IN  /\ IsEntriesOrder(k, objectEntries(k))
                /\ FollowsSteps(w, CreateSteps(w, objectEntries(k)))

\* C21 witness: a workspace configures no variable set and the variables
\* env, region and 2; no variable set was attached, variable 2 was created
\* first, the creation of env failed, and region was never requested.
C21_Witness ==
    /\ action = "create" /\ pc = "returned"
    /\ options[names[1]] = [varset |-> None, variables |-> 3]
    /\ configuredKeys(3) = <<"env", "region", "2">>
    /\ calls[names[1]] =
         {CallCreateWorkspace(names[1]),
          Call("createVariable", WsId[names[1]], "2"),
          Call("createVariable", WsId[names[1]], "env")}
    /\ results[1].error = ErrCreateVariable

\* the createRun requests issued so far
RunsCreated == {c \in UNION {calls[w] : w \in Range(names)} :
                  c.kind = "createRun"}

\* C22: every run the apply strategy creates is a non-destroy, auto-applying
\* run and every run the destroy strategy creates is a destroy,
\* auto-applying run; create and delete create no run.
C22_RunKindMatchesStrategy ==
    \A c \in RunsCreated :
        /\ action \in {"apply", "destroy"}
        /\ "auto-apply" \in c.flags
        /\ "is-destroy" \in c.flags <=> action = "destroy"
        /\ c.arg = IF action = "destroy" THEN MsgDestroy ELSE MsgApply

\* C22 witness: a destroy has created the runs of two workspaces, both
\* destroy runs.
C22_Witness ==
    /\ action = "destroy"
    /\ Cardinality(RunsCreated) = 2
    /\ \A c \in RunsCreated : c.flags = {"is-destroy", "auto-apply"}

\* the names execute hands to the destroy strategy
DestroyPlan == resolveExecutionOrder("destroy", names, dependsOn).order

\* C23 (as claimed): the destroy strategy attempts the workspaces one after
\* the other in the reverse of the order of the plan it is given.
C23_DestroyReversesItsPlan ==
    (action = "destroy" /\ pc \in {"running", "returned"}) =>
        \A i \in 1..Len(results) :
            results[i].workspace = Reverse(DestroyPlan)[i]

\* C23 (amended): the destroy strategy attempts the workspaces one after
\* the other in the order of the plan it is given, which is the output of
\* resolveExecutionOrder for destroy, i.e. the reverse of the apply order.
C23_DestroyFollowsItsPlan ==
    (action = "destroy" /\ pc \in {"running", "returned"}) =>
        /\ plan = DestroyPlan
        /\ plan = Reverse(resolveExecutionOrder("apply", names,
                                                dependsOn).order)
        /\ \A i \in 1..Len(plan) :
             /\ i <= Len(results) => results[i].workspace = plan[i]
             /\ Attempted(plan[i]) <=>
                  (i <= Len(results) \/ (pc = "running" /\ i = cur))
        /\ pc = "running" =>
             /\ cur = Len(results) + 1
             /\ InProgress(plan[cur])

\* C23 witness: with b depending on a and c depending on b, the destroy
\* strategy was given the plan c, b, a and has attempted c and b, in this
\* order, and is attempting a.
C23_Witness ==
    /\ action = "destroy" /\ pc = "running"
    /\ DestroyPlan = <<"c", "b", "a">>
    /\ Len(results) = 2
    /\ results[1].workspace = "c" /\ results[2].workspace = "b"
    /\ InProgress("a")

\* C24 as claimed: the timeout error reports the seconds that elapsed since
\* the wait began.
C24_TimeoutReportsElapsedSeconds ==
    (wpc = "threw" /\ wret.error = ErrTimedOut) =>
        wret.seconds = Seconds(clock - startTime)

\* C24: when waitForRun times out it throws, returning no run, and the
\* error names the run waited for and the configured timeout in seconds,
\* which is less than the time that elapsed since the wait began.
C24_TimeoutReportsRunAndLimit ==
    (wpc = "threw" /\ wret.error = ErrTimedOut) =>
        /\ wret.kind = "threw"
        /\ wret.status = None
        /\ wret.run = WaitedRun
        /\ wret.seconds = Seconds(timeout)
        /\ clock - startTime > timeout

\* C24 witness: a wait with a timeout of 2.5 seconds timed out after 7.5
\* seconds and one poll.
C24_Witness ==
    /\ wpc = "threw"
    /\ wret.error = ErrTimedOut
    /\ timeout = Tick
    /\ wret.seconds = <<2, 500>>
    /\ clock - startTime = 3 * Tick
    /\ polled = 1

\* C25: once a poll request has failed (non-200 response, empty response,
\* transport error or a rejection that is no Error) waitForRun has thrown
\* the error of that failure, whose message differs from the message of the
\* error of an errored run and which carries no run status, and no step
\* issues another poll for the run.
C25_PollFailureEndsTheWait ==
    /\ [](\A f \in PollFailures :
            f \in observed =>
                /\ wpc = "threw"
                /\ wret = Threw(pollError(f), None)
                /\ wret.error # ErrRunFailed
                /\ wret # Threw(ErrRunFailed, "errored"))
    /\ [][(observed \cap PollFailures # {})
            => (polled' = polled /\ wpc' = wpc /\ wret' = wret)]_vars

\* C25 witness: the first poll observed planning, the second was answered
\* with a non-200 response, and waitForRun threw the status-request error
\* after those two polls.
C25_Witness ==
    /\ observed = {Planning, "http"}
    /\ polled = 2
    /\ wpc = "threw"
    /\ wret.error = ErrPoll

\* the result list as it stands: the array applyWorkspaces and
\* destroyWorkspaces push to, and for createWorkspaces and deleteWorkspaces
\* the values Promise.all has collected so far, in the order of the plan
Collected ==
    IF action \in {"create", "delete"} /\ pc = "running"
      THEN SelectSeq([i \in 1..Len(plan) |-> task[plan[i]].result],
                     LAMBDA r : r # NoResult)
      ELSE results

\* C26: at every point of an execution of any strategy the result list
\* holds exactly one entry for each workspace whose attempt has completed,
\* the entry being the result of that attempt, and none for a workspace
\* that was never attempted; no workspace appears twice, and a step never
\* changes or removes an entry.
C26_OneResultPerCompletedAttempt ==
    /\ [](/\ \A i, j \in 1..Len(Collected) :
               Collected[i].workspace = Collected[j].workspace => i = j
          /\ {Collected[i].workspace : i \in 1..Len(Collected)}
               = {w \in Range(names) : task[w].step = "done"}
          /\ \A i \in 1..Len(Collected) :
               /\ Attempted(Collected[i].workspace)
               /\ Collected[i] = task[Collected[i].workspace].result)
    /\ [][/\ \A i \in 1..Len(Collected) :
               \E j \in 1..Len(Collected') : Collected'[j] = Collected[i]
          /\ Len(results') >= Len(results)
          /\ \A i \in 1..Len(results) : results'[i] = results[i]]_vars

\* C26 witness: apply stopped at the failure of the second of three
\* workspaces and returned two results, none for the third, which was never
\* attempted.
C26_Witness ==
    /\ action = "apply" /\ pc = "returned"
    /\ Len(plan) = 3
    /\ Len(results) = 2
    /\ results[1].success /\ ~results[2].success
    /\ ~Attempted(plan[3])

(***************************************************************************)
(* Claims about the resolver as a function, checked under SpecResolver.    *)
(***************************************************************************)
\* the post-order of a depth-first traversal of an acyclic graph: the names
\* a visit of name appends when the names in done are already done, and the
\* names the visits of list[i], list[i+1], ... append one after the other;
\* a name that is no workspace of deps has no dependencies
RECURSIVE DfsPostOrder(_, _, _)
RECURSIVE DfsEach(_, _, _, _)
DfsPostOrder(deps, name, done) ==
    IF name \in done THEN <<>>
    ELSE DfsEach(deps, IF name \in DOMAIN deps THEN deps[name] ELSE <<>>,
                 1, done) \o <<name>>
DfsEach(deps, list, i, done) ==
    IF i > Len(list) THEN <<>>
    ELSE LET first == DfsPostOrder(deps, list[i], done)
         IN  first \o DfsEach(deps, list, i + 1, done \cup Range(first))

\* the plan of a traversal whose outer loop follows the names of list: its
\* post-order for apply, that read backwards for destroy, the list itself
\* for create and delete
PlanOver(list) ==
    IF action = "apply" THEN DfsEach(dependsOn, list, 1, {})
    ELSE IF action = "destroy" THEN Reverse(DfsEach(dependsOn, list, 1, {}))
    ELSE list

\* C27 (as claimed): for apply the plan of resolveExecutionOrder is the
\* post-order of the depth-first traversal whose outer loop follows the
\* declared workspace order and which visits dependencies in the order of
\* dependsOn, skipping the names already done; the trial resolution inside
\* validateDependencies and the resolution of execute give that same plan.
C27_ResolverFollowsDeclaredOrder ==
    /\ (rout.called /\ action = "apply" /\ rout.err.kind = "none") =>
           rout.order = DfsEach(dependsOn, names, 1, {})
    /\ (vout.called /\ action = "apply" /\ vout.err.kind = "none") =>
           vout.order = DfsEach(dependsOn, names, 1, {})

\* C27 (amended): for apply the plan of resolveExecutionOrder is the
\* post-order of the depth-first traversal whose outer loop follows the
\* workspace names in the order of Object.keys (integer-like names first,
\* in ascending numeric order, then the other names as declared) and which
\* visits dependencies in the order of dependsOn, skipping the names
\* already done. Every call gives the plan of that traversal over the
\* configuration it is given (read backwards for destroy, the enumerated
\* names for create and delete), whichever call came before it: the trial
\* resolution inside validateDependencies and the resolution of execute
\* give the same plan, in either order of the two calls.
C27_ResolverIsStatelessPostOrder ==
    /\ (rout.called /\ rout.err.kind = "none") =>
           rout.order = PlanOver(Enumerated)
    /\ (vout.called /\ vout.err.kind = "none"
          /\ action \in {"apply", "destroy"}) =>
           /\ vout.order = PlanOver(Enumerated)
           /\ rout.called => rout.err.kind = "none"

\* C27 witness: validateDependencies and resolveExecutionOrder ran for
\* apply on the workspaces declared a, b, 10 with b -> a: both resolutions
\* gave 10, a, b, where the outer loop began with 10 and the visit of b
\* skipped a, already done.
C27_Witness ==
    /\ action = "apply"
    /\ vout.called /\ rout.called
    /\ names = <<"a", "b", "10">>
    /\ dependsOn["b"] = <<"a">>
    /\ rout.order = <<"10", "a", "b">>
    /\ vout.order = rout.order

\* the kinds of the backend requests issued for w so far
KindsCalled(w) == {c.kind : c \in calls[w]}

\* C28: in apply and destroy the requests of a workspace are getWorkspace,
\* then createRun, then polls. While getWorkspace is awaited nothing else
\* has been issued; a createRun was issued only after getWorkspace and is
\* for the workspace id it returned; a poll was issued only after a
\* createRun that succeeded and is for the run it returned; after a failed
\* getWorkspace no run was created and after a failed createRun no poll
\* was issued, a failed request ending the attempt at once.
C28_GetWorkspaceThenRunThenPolls ==
    action \in {"apply", "destroy"} =>
        \A w \in Range(names) :
            /\ KindsCalled(w) \subseteq {"getWorkspace", "createRun", "poll"}
            /\ \A c \in calls[w] :
                 /\ c.kind = "getWorkspace" => c.target = w
                 /\ c.kind = "createRun" =>
                      /\ "getWorkspace" \in KindsCalled(w)
                      /\ c.target = WsId[w]
                 /\ c.kind = "poll" =>
                      /\ "createRun" \in KindsCalled(w)
                      /\ c.target = RunId[w]
            /\ task[w].step = "getWorkspace" =>
                 KindsCalled(w) = {"getWorkspace"}
            /\ task[w].step = "createRun" =>
                 KindsCalled(w) = {"getWorkspace", "createRun"}
            /\ task[w].step \in {"poll", "sleep"} =>
                 KindsCalled(w) = {"getWorkspace", "createRun", "poll"}
            /\ w \in failed => task[w].step = "done"
            /\ task[w].result.error = ErrGetWorkspace =>
                 KindsCalled(w) = {"getWorkspace"}
            /\ task[w].result.error = ErrCreateRun =>
                 KindsCalled(w) = {"getWorkspace", "createRun"}

\* C28 witness: in destroy the first workspace went through getWorkspace,
\* createRun and a poll, the second failed at createRun without a poll and
\* the third failed at getWorkspace without a run.
C28_Witness ==
    /\ action = "destroy" /\ pc = "returned"
    /\ Len(plan) = 3
    /\ results[1].success
    /\ KindsCalled(plan[1]) = {"getWorkspace", "createRun", "poll"}
    /\ results[2].error = ErrCreateRun
    /\ KindsCalled(plan[2]) = {"getWorkspace", "createRun"}
    /\ results[3].error = ErrGetWorkspace
    /\ KindsCalled(plan[3]) = {"getWorkspace"}

\* d has a result with success = true in the result list
HasSucceeded(d) ==
    \E i \in 1..Len(results) :
        results[i].workspace = d /\ results[i].success

\* C29: in apply, whatever the backend answers, a workspace for which a
\* request has been issued, its createRun in particular, has every
\* workspace of its dependsOn in the result list with success = true.
C29_ApplyRunsOnlyAfterDependenciesSucceeded ==
    action = "apply" =>
        \A w \in Range(names) :
            (Attempted(w) \/ "createRun" \in KindsCalled(w)) =>
                \A d \in Range(dependsOn[w]) : HasSucceeded(d)

\* C29 witness: apply of three workspaces where the third depends on the
\* first: its run is created when the first two have results with
\* success = true.
C29_Witness ==
    /\ action = "apply" /\ pc = "running"
    /\ Len(plan) = 3
    /\ Range(dependsOn[plan[3]]) = {plan[1]}
    /\ task[plan[3]].step = "createRun"
    /\ Len(results) = 2
    /\ HasSucceeded(plan[1]) /\ HasSucceeded(plan[2])

\* the workspaces that depend on w
Dependents(w) == {x \in Range(names) : w \in Range(dependsOn[x])}

\* C30: in destroy a workspace is attempted only when the attempt of every
\* workspace that depends on it has completed and left its result, be it a
\* success or a failure.
C30_DestroyAttemptsDependentsFirst ==
    action = "destroy" =>
        \A w \in Range(names) :
            Attempted(w) =>
                \A x \in Dependents(w) :
                    /\ task[x].step = "done"
                    /\ \E i \in 1..Len(results) : results[i].workspace = x

\* C30 witness: destroy of three workspaces, the second of the plan
\* depending on the third: the attempt of the third is in progress after
\* the first attempt succeeded and that of its dependent failed.
C30_Witness ==
    /\ action = "destroy" /\ pc = "running"
    /\ Len(plan) = 3
    /\ Dependents(plan[3]) = {plan[2]}
    /\ Dependents(plan[2]) = {}
    /\ InProgress(plan[3])
    /\ results[1].success /\ ~results[2].success

(***************************************************************************)
(* Claims about the shape of results and the calls of an action, checked   *)
(* under Spec.                                                             *)
(***************************************************************************)
\* the results that exist: those returned and those attempts resolved with
ResultsSoFar ==
    Range(results) \cup {task[w].result : w \in {x \in Range(names) :
                                                 task[x].step = "done"}}

\* C34: a result with success = false carries an error message and neither
\* workspace id nor URL, and a result with success = true carries no error
\* message; so a create attempt that fails at attachVariableSet or at a
\* variable, when the workspace has been created remotely, reports a failure
\* without the id of that workspace.
C34_FailedResultHasErrorAndNoId ==
    /\ \A r \in ResultsSoFar :
         /\ ~r.success =>
              /\ r.error # None
              /\ r.workspaceId = None
              /\ r.workspaceUrl = None
         /\ r.success => r.error = None
    /\ \A w \in Range(names) :
         (task[w].step = "done"
            /\ {"attachVariableSet", "createVariable"} \cap KindsCalled(w) # {}
            /\ w \in failed) =>
              /\ ~task[w].result.success
              /\ task[w].result.error \in {ErrAttach, ErrCreateVariable}
              /\ task[w].result.workspaceId = None

\* C34 witness: create returned a failure for a workspace whose second
\* variable was refused, after createWorkspace and the first variable
\* succeeded, next to a success carrying id and URL.
C34_Witness ==
    /\ action = "create" /\ pc = "returned"
    /\ \E i, j \in 1..Len(results) :
         /\ results[i].error = ErrCreateVariable
         /\ Cardinality({c \in calls[results[i].workspace] :
                           c.kind = "createVariable"}) = 2
         /\ results[i].workspaceId = None
         /\ results[j].success
         /\ results[j].workspaceId = WsId[results[j].workspace]

\* the kinds of the backend requests issued so far, for any workspace
AllKindsCalled == UNION {KindsCalled(w) : w \in Range(names)}

\* C35: an action issues only its own kinds of request. create issues
\* createWorkspace, attachVariableSet and createVariable, so never a
\* deleteWorkspace, not even after a failure, nor a run; delete issues only
\* deleteWorkspace; apply and destroy issue getWorkspace, createRun and
\* polls, so never create, delete, attach or a variable.
C35_ActionIssuesOnlyItsOwnCalls ==
    /\ action = "create" =>
         AllKindsCalled \subseteq
           {"createWorkspace", "attachVariableSet", "createVariable"}
    /\ action = "delete" => AllKindsCalled \subseteq {"deleteWorkspace"}
    /\ action \in {"apply", "destroy"} =>
         AllKindsCalled \subseteq {"getWorkspace", "createRun", "poll"}
    /\ (action = "create" /\ failed # {}) =>
         "deleteWorkspace" \notin AllKindsCalled

\* C35 witness: a create of two workspaces returned with one workspace
\* failed at attachVariableSet, hence created remotely, and all the kinds of
\* call of create issued, no deleteWorkspace among them.
C35_Witness ==
    /\ action = "create" /\ pc = "returned"
    /\ AllKindsCalled =
         {"createWorkspace", "attachVariableSet", "createVariable"}
    /\ \E w \in failed : task[w].result.error = ErrAttach

(***************************************************************************)
(* Claims about the timing of waitForRun, checked under SpecWait.          *)
(***************************************************************************)
\* C32: the timeout error is raised only at the top of the loop, on entry
\* or when the timer has fired, and only when the time elapsed strictly
\* exceeds the timeout; the step that receives the response of a poll never
\* raises it, so a terminal status observed after the deadline is returned,
\* or raised as the run-failed error, all the same.
C32_DeadlineCheckedOnlyBeforePoll ==
    /\ [](wret.error = ErrTimedOut => clock - startTime > timeout)
    /\ [](\A s \in {"applied", "canceled", "force_canceled", "discarded"} :
            (s \in observed /\ clock - startTime > timeout) =>
                wret = Returned(s))
    /\ [](("errored" \in observed /\ clock - startTime > timeout) =>
                wret = Threw(ErrRunFailed, "errored"))
    /\ [][(wret'.error = ErrTimedOut /\ wret.error # ErrTimedOut) =>
            /\ wpc \in {"called", "sleeping"}
            /\ observed' = observed
            /\ clock' - startTime > timeout]_vars
    /\ [][wpc = "polling" => wret'.error # ErrTimedOut]_vars

\* C32 witness: with a timeout of 2.5 seconds the first poll, issued at
\* once, was answered 7.5 seconds later with applied, and waitForRun
\* returned the run although the deadline had passed.
C32_Witness ==
    /\ timeout = Tick
    /\ polled = 1
    /\ clock - startTime = 3 * Tick
    /\ observed = {"applied"}
    /\ wret = Returned("applied")

\* C33 (as claimed): a poll is issued only when none is outstanding, and
\* after a poll that observed a non-terminal status the next one is issued
\* no earlier than one poll interval after the response was received.
C33_OnePollAtATimeSpacedByInterval ==
    /\ [](wpc = "polling" => wret = NoOutcome)
    /\ [][polled' # polled =>
            /\ polled' = polled + 1
            /\ wpc \in {"called", "sleeping"}
            /\ wpc' = "polling"]_vars
    /\ [][(wpc = "sleeping" /\ polled' # polled) =>
            clock' >= clock + pollInterval]_vars
    /\ [][wpc = "polling" => (polled' = polled /\ wpc' # "polling")]_vars

\* C33 (amended): a poll is issued only when none is outstanding, and after
\* a poll that observed a non-terminal status the next one is issued only
\* when the timer of the poll interval has fired, which by the clock the
\* code reads is no earlier than pollInterval less MaxEarlyMs after the
\* response was received.
C33_OnePollAtATimeSpacedByTimer ==
    /\ [](wpc = "polling" => wret = NoOutcome)
    /\ [][polled' # polled =>
            /\ polled' = polled + 1
            /\ wpc \in {"called", "sleeping"}
            /\ wpc' = "polling"]_vars
    /\ [][(wpc = "sleeping" /\ polled' # polled) =>
            clock' >= clock + pollInterval - MaxEarlyMs]_vars
    /\ [][wpc = "polling" => (polled' = polled /\ wpc' # "polling")]_vars

\* C33 witness: the first poll was answered with planning after 2.5
\* seconds and the second poll is outstanding, issued 4999 ms after that
\* response.
C33_Witness ==
    /\ wpc = "polling"
    /\ polled = 2
    /\ observed = {Planning}
    /\ clock = Tick + pollInterval - 1

(***************************************************************************)
(* Claims about run(), checked under SpecRun.                              *)
(***************************************************************************)
\* C36: when run has ended after calling execute, the action is marked
\* failed exactly when execute threw or some returned result has
\* success = false, with the number of such results; it is not marked when
\* every returned result is a success, and it is marked for an apply that
\* stopped before the end of its plan. Nothing marks it before run ends.
C36_MarkedFailedIffThrewOrSomeFailed ==
    /\ rpc # "done" => setFailed = NotFailed
    /\ (rpc = "done" /\ client) =>
         /\ pc \in {"returned", "threw"}
         /\ setFailed # NotFailed <=>
              (pc = "threw" \/ \E i \in 1..Len(results) : ~results[i].success)
         /\ pc = "threw" => setFailed = FailedBy(ErrExecute)
         /\ pc = "returned" =>
              setFailed.count =
                Cardinality({i \in 1..Len(results) : ~results[i].success})
         /\ (pc = "returned" /\ \A i \in 1..Len(results) : results[i].success)
              => setFailed = NotFailed
         /\ (action = "apply" /\ pc = "returned"
               /\ Len(results) < Len(plan)) => setFailed.kind = "workspaces"

\* C36 witness: an apply of three workspaces stopped at the failure of the
\* second, execute returned one success and one failure, and run marked
\* the action failed for one workspace.
C36_Witness ==
    /\ rpc = "done"
    /\ action = "apply" /\ pc = "returned"
    /\ Len(plan) = 3 /\ Len(results) = 2
    /\ results[1].success /\ ~results[2].success
    /\ setFailed = FailedWorkspaces(1)

\* C37: a configuration without action, with an action that is none of the
\* four, or without workspaces never gets a client constructed, never has
\* execute called and never has a backend request issued, and when run has
\* ended the action is marked failed with the message of the first check
\* the configuration fails: the action is missing, there are no workspaces,
\* the action is invalid.
C37_InvalidConfigurationRejected ==
    (action \notin {"create", "delete", "apply", "destroy"}
       \/ Len(names) = 0) =>
        /\ ~client
        /\ pc = "idle"
        /\ \A w \in Range(names) : calls[w] = {}
        /\ rpc \in {"start", "done"}
        /\ rpc = "done" =>
             setFailed =
               FailedBy(IF action = NoAction THEN ErrNoAction
                        ELSE IF Len(names) = 0 THEN ErrNoWorkspaces
                        ELSE ErrInvalidAction)

\* C37 witness: run ended on a configuration with the action plan and two
\* workspaces, the action marked failed as invalid with no client built.
C37_Witness ==
    /\ rpc = "done"
    /\ action = OtherAction
    /\ Len(names) = 2
    /\ setFailed = FailedBy(ErrInvalidAction)
    /\ ~client

(***************************************************************************)
(* Claims about termination, checked under SpecLive.                       *)
(***************************************************************************)
\* what ends a wait for a run without a success
WaitEndings == PollErrors \cup {ErrRunFailed, ErrTimedOut}

\* C31: when every request is answered and every timer fires, execute
\* returns or throws in the end, which ends every wait for a run, and an
\* attempt that polled ended by a terminal status (a success, or the
\* run-failed error), a poll failure or the timeout, also when every poll
\* saw a non-terminal status.
C31_ExecuteTerminates ==
    /\ <>(pc \in {"returned", "threw"})
    /\ [](\A w \in Range(names) :
            (task[w].step = "done" /\ "poll" \in KindsCalled(w)) =>
                \/ task[w].result.success
                \/ task[w].result.error \in WaitEndings)

\* C31 witness: apply returned after its only run stayed in a non-terminal
\* status at every poll: the wait ended by the timeout.
C31_Witness ==
    /\ action = "apply" /\ pc = "returned"
    /\ Len(plan) = 1
    /\ lastPoll = [workspace |-> plan[1], status |-> Planning]
    /\ results[1].error = ErrTimedOut

====
